---- MODULE Spec2Model ----
(***************************************************************************)
(* Seekable ZSTD container: wire types, serial writer, concurrent writer  *)
(* (WriteMany) and random-access reader of zstd-seekable-format-go.       *)
(*                                                                         *)
(* Bytes are integers 0..255, byte strings are sequences of bytes.  Every *)
(* size in the model is far below 2^31, so the uint32/int64 arithmetic of *)
(* the Go code never wraps and is written with plain integers; the one    *)
(* 32-bit constant above 2^31 (seekableMagicNumber) is kept as its four   *)
(* little-endian bytes.                                                   *)
(***************************************************************************)
EXTENDS Integers, Sequences, FiniteSets, TLC

VARIABLES
    frames,     \* the uncompressed frames F_0..F_{N-1} given to the writer / frame source
    file,       \* reader specs: the bytes of the compressed file the reader was opened on
    r,          \* readerImpl: index, checksums, offset, numFrames, endOffset, closed, cachedFrame
    call,       \* the reader call that has just returned (its arguments and results), or NoCall
    w,          \* writerImpl: frameEntries, once
    out,        \* bytes the write environment has accepted, in order
    envLog,     \* the calls made to the write environment, in order
    wcall,      \* the writer call that has just returned, or NoCall
    procs,      \* concurrent ReadAt callers: each one's position and locals
    wm          \* the WriteMany pipeline: producer, consumer, encoders, queue, errgroup

vars == <<frames, file, r, call, w, out, envLog, wcall, procs, wm>>

------------------------------------------------------------------------------
(* Bounds of the model *)

\* most frames in one stream
MaxFrames == 2
\* longest uncompressed frame
MaxFrameLen == 2
\* longest destination buffer handed to Read / ReadAt
MaxBuf == 4
\* how far beyond end_of_stream a Seek or ReadAt offset may go
MaxPast == 1
\* largest |offset| argument of Seek
MaxSeek == 2
\* most Write calls on one writer
MaxWrites == 2
\* most Close calls on one writer
MaxCloses == 2
NumProcs == 2
MaxRALen == 2
MaxSourceFrames == 3
MaxConcurrency == 2
MaxTableFrames == 3
MaxFooterFrames == 2
MaxPayload == 2
MaxExampleBuf == 5
MaxEntries == 2

------------------------------------------------------------------------------
(* Byte-level helpers *)

Nil == <<-1>>                       \* a nil []byte (distinct from every byte string)
SliceLen(p) == IF p = Nil THEN 0 ELSE Len(p)
Bytes(p) == IF p = Nil THEN <<>> ELSE p

Min(a, b) == IF a < b THEN a ELSE b

\* p[lo:hi] of Go, 0-based, hi exclusive
Slice(p, lo, hi) == SubSeq(p, lo + 1, hi)

RECURSIVE Concat(_)
Concat(ss) == IF ss = <<>> THEN <<>> ELSE Head(ss) \o Concat(Tail(ss))

\* binary.LittleEndian.PutUint32
PutUint32(v) ==
    << v % 256, (v \div 256) % 256, (v \div 65536) % 256, (v \div 16777216) % 256 >>

\* binary.LittleEndian.Uint32 of the 4 bytes at p[at:]
Uint32(p, at) ==
    p[at + 1] + 256 * p[at + 2] + 65536 * p[at + 3] + 16777216 * p[at + 4]

------------------------------------------------------------------------------
(* Program constants *)

skippableFrameMagic == 407710288            \* 0x184D2A50
seekableMagicNumber == <<177, 234, 146, 143>>  \* 0x8F92EAB1, little-endian bytes
seekTableFooterOffset == 9
frameSizeFieldSize == 4
skippableMagicNumberFieldSize == 4
maxDecoderFrameSize == 134217728            \* 128 << 20
seekableTag == 14                           \* 0xE
zstdFrameMagic == <<40, 181, 47, 253>>      \* 0xFD2FB528, little-endian bytes
MaxUint64 == -1                             \* math.MaxUint64, a key no frame has

------------------------------------------------------------------------------
(* External primitives: xxhash and the ZSTD encoder / decoder *)

\* xxhash.Sum64(p) truncated to its low 32 bits: any fixed hash of the bytes
RECURSIVE Sum64(_, _)
Sum64(p, h) == IF p = <<>> THEN h ELSE Sum64(Tail(p), (h * 31 + Head(p) + 1) % 65521)
Checksum32(p) == Sum64(p, 7)

\* ZSTDEncoder.EncodeAll(src, nil): one ZSTD frame holding src as a single raw
\* block, with the content checksum (the layout of the frames in the tests)
EncodeAll(src) ==
    zstdFrameMagic \o <<4, 0>>
        \o SubSeq(PutUint32(Len(src) * 8 + 1), 1, 3)
        \o src \o PutUint32(Checksum32(src))

IsPrefix(m, p, at) == at + Len(m) <= Len(p) /\ Slice(p, at, at + Len(m)) = m

\* ZSTDDecoder.DecodeAll(input, nil): decodes every ZSTD frame of input in
\* order, skips skippable frames, fails on anything else
RECURSIVE DecodeFrom(_, _, _)
DecodeFrom(p, at, acc) ==
    IF at = Len(p) THEN [data |-> acc, err |-> "nil"]
    ELSE IF IsPrefix(zstdFrameMagic, p, at) THEN
        IF at + 9 > Len(p) THEN [data |-> Nil, err |-> "decode"]
        ELSE LET n    == (p[at + 7] + 256 * p[at + 8] + 65536 * p[at + 9]) \div 8
                 body == at + 9
             IN  IF p[at + 5] # 4 \/ p[at + 6] # 0 \/ p[at + 7] % 8 # 1
                    \/ body + n + 4 > Len(p)
                 THEN [data |-> Nil, err |-> "decode"]
                 ELSE LET d == Slice(p, body, body + n)
                      IN  IF Uint32(p, body + n) # Checksum32(d)
                          THEN [data |-> Nil, err |-> "decode"]
                          ELSE DecodeFrom(p, body + n + 4, IF n = 0 THEN acc ELSE Bytes(acc) \o d)
    ELSE IF at + 8 <= Len(p) /\ p[at + 1] \div 16 = 5
            /\ Slice(p, at + 1, at + 4) = <<42, 77, 24>> THEN
        IF at + 8 + Uint32(p, at + 4) > Len(p) THEN [data |-> Nil, err |-> "decode"]
        ELSE DecodeFrom(p, at + 8 + Uint32(p, at + 4), acc)
    ELSE [data |-> Nil, err |-> "decode"]

DecodeAll(input) == DecodeFrom(input, 0, Nil)

------------------------------------------------------------------------------
(* Wire types: footer, seek table entry, skippable frame *)

\* seekTableFooter.marshalBinaryInline into a zeroed 9-byte buffer
footerMarshalBinary(f) ==
    PutUint32(f.NumberOfFrames)
        \o << IF f.ChecksumFlag THEN 128 ELSE 0 >>
        \o seekableMagicNumber

\* a decode that takes bits 0-1 of the descriptor for reserved bits too
footerUnmarshalBinary_lowBitsReserved(p) ==
    LET none == [NumberOfFrames |-> 0, ChecksumFlag |-> FALSE] IN
    IF Len(p) # seekTableFooterOffset THEN [footer |-> none, err |-> "footer length"]
    ELSE IF p[5] % 128 # 0 THEN [footer |-> none, err |-> "footer reserved"]
    ELSE IF Slice(p, 5, 9) # seekableMagicNumber
         THEN [footer |-> none, err |-> "footer magic"]
    ELSE [footer |-> [NumberOfFrames |-> Uint32(p, 0), ChecksumFlag |-> p[5] \div 128 > 0],
          err |-> "nil"]

\* seekTableFooter.UnmarshalBinary
footerUnmarshalBinary(p) ==
    LET none == [NumberOfFrames |-> 0, ChecksumFlag |-> FALSE] IN
    IF Len(p) # seekTableFooterOffset THEN [footer |-> none, err |-> "footer length"]
    ELSE IF ((p[5] * 2) % 256) \div 8 # 0 THEN [footer |-> none, err |-> "footer reserved"]
    ELSE IF Slice(p, 5, 9) # seekableMagicNumber
         THEN [footer |-> none, err |-> "footer magic"]
    ELSE [footer |-> [NumberOfFrames |-> Uint32(p, 0), ChecksumFlag |-> p[5] \div 128 > 0],
          err |-> "nil"]

\* seekTableEntry.marshalBinaryInline
entryMarshalBinary(e) ==
    PutUint32(e.CompressedSize) \o PutUint32(e.DecompressedSize) \o PutUint32(e.Checksum)

\* seekTableEntry.UnmarshalBinary
entryUnmarshalBinary(p) ==
    IF Len(p) < 8
    THEN [entry |-> [CompressedSize |-> 0, DecompressedSize |-> 0, Checksum |-> 0],
          err |-> "entry length"]
    ELSE [entry |-> [CompressedSize |-> Uint32(p, 0),
                     DecompressedSize |-> Uint32(p, 4),
                     Checksum |-> IF Len(p) >= 12 THEN Uint32(p, 8) ELSE 0],
          err |-> "nil"]

\* createSkippableFrame(tag, payload)
createSkippableFrame(tag, payload) ==
    IF SliceLen(payload) = 0 THEN [bytes |-> Nil, err |-> "nil"]
    ELSE IF tag > 15 THEN [bytes |-> Nil, err |-> "bad tag"]
    ELSE [bytes |-> PutUint32(skippableFrameMagic + tag) \o PutUint32(Len(payload)) \o payload,
          err |-> "nil"]

------------------------------------------------------------------------------
(* Writer: Encode, EndStream, Write, Close *)

\* NewWriter: no entries, Close not yet run
NewWriter == [frameEntries |-> <<>>, once |-> FALSE]

\* writerImpl.encodeOne(src): the compressed frame and its seek table entry
encodeOne(src) ==
    IF SliceLen(src) = 0
    THEN [dst |-> Nil, entry |-> [CompressedSize |-> 0, DecompressedSize |-> 0, Checksum |-> 0],
          err |-> "nil"]
    ELSE LET dst == EncodeAll(src) IN
         [dst |-> dst,
          entry |-> [CompressedSize |-> Len(dst), DecompressedSize |-> Len(src),
                     Checksum |-> Checksum32(src)],
          err |-> "nil"]

\* Encode recording the compressed length as the decompressed size
writerImpl_Encode_swapsSizes(s, src) ==
    IF SliceLen(src) = 0 THEN [dst |-> Nil, err |-> "nil", s |-> s]
    ELSE LET dst == EncodeAll(src)
             entry == [CompressedSize |-> Len(dst), DecompressedSize |-> Len(dst),
                       Checksum |-> Checksum32(src)]
         IN  [dst |-> dst, err |-> "nil",
              s |-> [s EXCEPT !.frameEntries = Append(@, entry)]]

\* writerImpl.Encode(src): compresses src and appends its entry
writerImpl_Encode(s, src) ==
    IF SliceLen(src) = 0 THEN [dst |-> Nil, err |-> "nil", s |-> s]
    ELSE LET dst == EncodeAll(src)
             entry == [CompressedSize |-> Len(dst), DecompressedSize |-> Len(src),
                       Checksum |-> Checksum32(src)]
         IN  [dst |-> dst, err |-> "nil",
              s |-> [s EXCEPT !.frameEntries = Append(@, entry)]]

RECURSIVE MarshalEntries(_)
MarshalEntries(es) ==
    IF es = <<>> THEN <<>> ELSE entryMarshalBinary(Head(es)) \o MarshalEntries(Tail(es))

\* EndStream that emits nothing for a writer without entries
writerImpl_EndStream_skipsEmpty(s) ==
    IF s.frameEntries = <<>> THEN [bytes |-> Nil, err |-> "nil"]
    ELSE createSkippableFrame(seekableTag,
             MarshalEntries(s.frameEntries)
                 \o footerMarshalBinary([NumberOfFrames |-> Len(s.frameEntries),
                                         ChecksumFlag |-> TRUE]))

\* writerImpl.EndStream(): the seek table as a skippable frame
writerImpl_EndStream(s) ==
    createSkippableFrame(seekableTag,
        MarshalEntries(s.frameEntries)
            \o footerMarshalBinary([NumberOfFrames |-> Len(s.frameEntries),
                                    ChecksumFlag |-> TRUE]))

\* How the write environment answers one call: it takes everything, takes all
\* but the last byte without an error, or fails having taken nothing
EnvModes == {"ok", "short", "fail"}
EnvAccepts(p, mode) ==
    CASE mode = "ok" -> [n |-> SliceLen(p), err |-> "nil"]
      [] mode = "short" -> [n |-> IF SliceLen(p) = 0 THEN 0 ELSE SliceLen(p) - 1, err |-> "nil"]
      [] OTHER -> [n |-> 0, err |-> "env"]

\* writerEnvImpl.WriteFrame / WriteSeekTable: the sink and the log after the call
EnvWrite(kind, p, mode, o, lg) ==
    LET a == EnvAccepts(p, mode) IN
    [n |-> a.n, err |-> a.err,
     out |-> o \o Slice(Bytes(p), 0, a.n),
     log |-> Append(lg, [kind |-> kind, offered |-> SliceLen(p), n |-> a.n, err |-> a.err])]

\* writerImpl.Write(src)
writerImpl_Write(s, src, mode, o, lg) ==
    LET e  == writerImpl_Encode(s, src)
        wf == EnvWrite("frame", e.dst, mode, o, lg)
    IN  IF e.err # "nil" THEN [n |-> 0, err |-> e.err, s |-> e.s, out |-> o, log |-> lg]
        ELSE IF wf.err # "nil" THEN [n |-> 0, err |-> wf.err, s |-> e.s, out |-> wf.out, log |-> wf.log]
        ELSE IF wf.n # SliceLen(e.dst)
             THEN [n |-> 0, err |-> "partial write", s |-> e.s, out |-> wf.out, log |-> wf.log]
        ELSE [n |-> SliceLen(src), err |-> "nil", s |-> e.s, out |-> wf.out, log |-> wf.log]

\* writerImpl.writeSeekTable()
writerImpl_writeSeekTable(s, mode, o, lg) ==
    LET t == writerImpl_EndStream(s) IN
    IF t.err # "nil" THEN [err |-> t.err, out |-> o, log |-> lg]
    ELSE LET ws == EnvWrite("table", t.bytes, mode, o, lg)
         IN  [err |-> ws.err, out |-> ws.out, log |-> ws.log]

\* Close without the sync.Once guard
writerImpl_Close_noOnce(s, mode, o, lg) ==
    LET t == writerImpl_writeSeekTable(s, mode, o, lg)
    IN  [err |-> t.err, s |-> [s EXCEPT !.once = TRUE], out |-> t.out, log |-> t.log]

\* writerImpl.Close(): once.Do(writeSeekTable)
writerImpl_Close(s, mode, o, lg) ==
    IF s.once THEN [err |-> "nil", s |-> s, out |-> o, log |-> lg]
    ELSE LET t == writerImpl_writeSeekTable(s, mode, o, lg)
         IN  [err |-> t.err, s |-> [s EXCEPT !.once = TRUE], out |-> t.out, log |-> t.log]

------------------------------------------------------------------------------
(* Reader: index construction *)

\* a nil *FrameOffsetEntry
NilEntry == [ID |-> -1, CompOffset |-> 0, DecompOffset |-> 0,
             CompSize |-> 0, DecompSize |-> 0, Checksum |-> 0]

\* btree.ReplaceOrInsert under env.Less: the tree is the sequence of its items
\* in key (DecompOffset) order; an item with an equal key is replaced
ReplaceOrInsert(t, e) ==
    IF \E i \in 1..Len(t) : t[i].DecompOffset = e.DecompOffset
    THEN [i \in 1..Len(t) |-> IF t[i].DecompOffset = e.DecompOffset THEN e ELSE t[i]]
    ELSE LET k == Cardinality({ i \in 1..Len(t) : t[i].DecompOffset < e.DecompOffset })
         IN  SubSeq(t, 1, k) \o <<e>> \o SubSeq(t, k + 1, Len(t))

\* btree.DescendLessOrEqual stopped at the first item: the greatest key <= off
DescendLessOrEqual(t, off) ==
    LET below == { i \in 1..Len(t) : t[i].DecompOffset <= off } IN
    IF below = {} THEN NilEntry
    ELSE t[CHOOSE i \in below : \A j \in below : j <= i]

\* a loop that advances decompOffset by the compressed size
RECURSIVE indexEntriesFrom_addsCompSize(_, _, _, _, _, _, _)
indexEntriesFrom_addsCompSize(p, entrySize, indexOffset, t, last, compOffset, decompOffset) ==
    IF indexOffset >= Len(p) THEN [tree |-> t, last |-> last, err |-> "nil"]
    ELSE LET u == entryUnmarshalBinary(Slice(p, indexOffset, indexOffset + entrySize)) IN
         IF u.err # "nil" THEN [tree |-> <<>>, last |-> NilEntry, err |-> u.err]
         ELSE LET e == [ID |-> last.ID + 1,
                        CompOffset |-> compOffset, DecompOffset |-> decompOffset,
                        CompSize |-> u.entry.CompressedSize,
                        DecompSize |-> u.entry.DecompressedSize,
                        Checksum |-> u.entry.Checksum]
              IN  indexEntriesFrom_addsCompSize(p, entrySize, indexOffset + entrySize,
                                   ReplaceOrInsert(t, e), e,
                                   compOffset + u.entry.CompressedSize,
                                   decompOffset + u.entry.CompressedSize)

\* readerImpl.indexSeekTableEntries: the loop from byte offset indexOffset on
RECURSIVE indexEntriesFrom(_, _, _, _, _, _, _)
indexEntriesFrom(p, entrySize, indexOffset, t, last, compOffset, decompOffset) ==
    IF indexOffset >= Len(p) THEN [tree |-> t, last |-> last, err |-> "nil"]
    ELSE LET u == entryUnmarshalBinary(Slice(p, indexOffset, indexOffset + entrySize)) IN
         IF u.err # "nil" THEN [tree |-> <<>>, last |-> NilEntry, err |-> u.err]
         ELSE LET e == [ID |-> last.ID + 1,
                        CompOffset |-> compOffset, DecompOffset |-> decompOffset,
                        CompSize |-> u.entry.CompressedSize,
                        DecompSize |-> u.entry.DecompressedSize,
                        Checksum |-> u.entry.Checksum]
              IN  indexEntriesFrom(p, entrySize, indexOffset + entrySize,
                                   ReplaceOrInsert(t, e), e,
                                   compOffset + u.entry.CompressedSize,
                                   decompOffset + u.entry.DecompressedSize)

\* readerImpl.indexSeekTableEntries
indexSeekTableEntries(p, entrySize) ==
    IF Len(p) % entrySize # 0 THEN [tree |-> <<>>, last |-> NilEntry, err |-> "table size"]
    ELSE indexEntriesFrom(p, entrySize, 0, <<>>, NilEntry, 0, 0)

\* readSeekerEnvImpl.ReadFooter: Seek(-9, SeekEnd) and ReadFull
envReadFooter(f) ==
    IF Len(f) < seekTableFooterOffset THEN [buf |-> Nil, err |-> "env"]
    ELSE [buf |-> Slice(f, Len(f) - seekTableFooterOffset, Len(f)), err |-> "nil"]

\* readSeekerEnvImpl.ReadSkipFrame: Seek(-skippableFrameOffset, SeekEnd) and ReadFull
envReadSkipFrame(f, skippableFrameOffset) ==
    IF Len(f) < skippableFrameOffset THEN [buf |-> Nil, err |-> "env"]
    ELSE [buf |-> Slice(f, Len(f) - skippableFrameOffset, Len(f)), err |-> "nil"]

\* readSeekerEnvImpl.GetFrameByIndex: a buffer of CompSize bytes filled with
\* what the source holds at CompOffset. Over an io.ReaderAt io.EOF is dropped
\* and the position of the source stays; otherwise the source is moved with
\* Seek and read with io.ReadFull, which fails when the source ends early
envGetFrameByIndex(rd, f, index) ==
    LET p == [i \in 1..index.CompSize |->
                 IF index.CompOffset + i <= Len(f) THEN f[index.CompOffset + i] ELSE 0]
    IN  IF rd.readerAt THEN [p |-> p, err |-> "nil", rsPos |-> rd.rsPos]
        ELSE IF index.CompSize = 0
             THEN [p |-> p, err |-> "nil", rsPos |-> index.CompOffset]
        ELSE IF index.CompOffset + index.CompSize <= Len(f)
             THEN [p |-> p, err |-> "nil", rsPos |-> index.CompOffset + index.CompSize]
        ELSE [p |-> p, err |-> "env",
              rsPos |-> IF index.CompOffset > Len(f) THEN index.CompOffset ELSE Len(f)]

\* decoderEnv.ReadFooter and decoderEnv.ReadSkipFrame: the seek table the
\* Decoder was given, whole, whatever length is asked for
decoderReadFooter(seekTable) == [buf |-> seekTable, err |-> "nil"]
decoderReadSkipFrame(seekTable, skippableFrameOffset) == [buf |-> seekTable, err |-> "nil"]

\* r.env.ReadFooter() and r.env.ReadSkipFrame(n) of the environment env
ReadFooter(env, f) ==
    IF env = "decoderEnv" THEN decoderReadFooter(f) ELSE envReadFooter(f)
ReadSkipFrame(env, f, skippableFrameOffset) ==
    IF env = "decoderEnv" THEN decoderReadSkipFrame(f, skippableFrameOffset)
    ELSE envReadSkipFrame(f, skippableFrameOffset)

\* an open that asks the environment for a table of any length
FrameOffsetTooBig_never(skippableFrameOffset) == FALSE

\* indexFooter: the guard on the length of the skippable frame
FrameOffsetTooBig(skippableFrameOffset) == skippableFrameOffset > maxDecoderFrameSize

\* readerImpl.indexFooter over the environment env; asked is the length
\* ReadSkipFrame was called with, 0 when it was not called
indexFooter(env, f) ==
    LET rf == ReadFooter(env, f)
        uf0 == IF rf.err = "nil" /\ Len(rf.buf) >= seekTableFooterOffset
               THEN footerUnmarshalBinary(
                        Slice(rf.buf, Len(rf.buf) - seekTableFooterOffset, Len(rf.buf)))
               ELSE [footer |-> [NumberOfFrames |-> 0, ChecksumFlag |-> FALSE], err |-> "none"]
        off0 == seekTableFooterOffset
                    + (IF uf0.footer.ChecksumFlag THEN 12 ELSE 8) * uf0.footer.NumberOfFrames
                    + frameSizeFieldSize + skippableMagicNumberFieldSize
        fail(e) == [tree |-> <<>>, last |-> NilEntry, checksums |-> FALSE, err |-> e,
                    asked |-> IF uf0.err = "nil" /\ ~FrameOffsetTooBig(off0)
                              THEN off0 ELSE 0,
                    footer |-> uf0.footer]
    IN
    IF rf.err # "nil" THEN fail("read footer")
    ELSE IF Len(rf.buf) < seekTableFooterOffset THEN fail("footer too small")
    ELSE LET uf == footerUnmarshalBinary(
                       Slice(rf.buf, Len(rf.buf) - seekTableFooterOffset, Len(rf.buf)))
             seekTableEntrySize == IF uf.footer.ChecksumFlag THEN 12 ELSE 8
             skippableFrameOffset ==
                 seekTableFooterOffset + seekTableEntrySize * uf.footer.NumberOfFrames
                     + frameSizeFieldSize + skippableMagicNumberFieldSize
             rs == ReadSkipFrame(env, f, skippableFrameOffset)
         IN
         IF uf.err # "nil" THEN fail(uf.err)
         ELSE IF FrameOffsetTooBig(skippableFrameOffset) THEN fail("frame offset too big")
         ELSE IF rs.err # "nil" THEN fail("read skip frame")
         ELSE IF Len(rs.buf) < frameSizeFieldSize + skippableMagicNumberFieldSize
                                   + seekTableFooterOffset
              THEN fail("skip frame too small")
         ELSE IF Slice(rs.buf, 0, 4) # PutUint32(skippableFrameMagic + seekableTag)
              THEN fail("skippable magic")
         ELSE IF Uint32(rs.buf, 4)
                     # Len(rs.buf) - frameSizeFieldSize - skippableMagicNumberFieldSize
              THEN fail("frame size")
         ELSE IF Uint32(rs.buf, 4) > maxDecoderFrameSize THEN fail("frame too big")
         ELSE LET ix == indexSeekTableEntries(
                            Slice(rs.buf, 8, Len(rs.buf) - seekTableFooterOffset),
                            seekTableEntrySize)
              IN  [tree |-> ix.tree, last |-> ix.last,
                   checksums |-> uf.footer.ChecksumFlag, err |-> ix.err,
                   asked |-> skippableFrameOffset, footer |-> uf.footer]

\* the zero value of cachedFrame
EmptyCache == [offset |-> 0, data |-> Nil]

\* NewReader over the default environment, the source an io.ReaderAt too;
\* rsPos is where ReadFooter and ReadSkipFrame have left the source
NewReaderWithREnvironment(env, f) ==
    LET ix == indexFooter(env, f) IN
    [err |-> ix.err, asked |-> ix.asked, footer |-> ix.footer,
     r |-> [index |-> ix.tree, hasIndex |-> TRUE, checksums |-> ix.checksums,
            env |-> env, offset |-> 0,
            numFrames |-> IF ix.last # NilEntry THEN ix.last.ID + 1 ELSE 0,
            endOffset |-> IF ix.last # NilEntry
                          THEN ix.last.DecompOffset + ix.last.DecompSize ELSE 0,
            closed |-> FALSE,
            cachedFrame |-> EmptyCache,
            readerAt |-> TRUE,
            rsPos |-> IF Len(f) < seekTableFooterOffset THEN 0 ELSE Len(f)]]

NewReader(f) == NewReaderWithREnvironment("readSeekerEnvImpl", f)

\* NewDecoder(seekTable, dec): NewReader over a decoderEnv
\* and the environment released
NewDecoder(seekTable) ==
    LET sr == NewReaderWithREnvironment("decoderEnv", seekTable)
    IN  [sr EXCEPT !.r.env = "nil"]

------------------------------------------------------------------------------
(* Reader: read, ReadAt, Read, Seek, Close *)

SeekStart == 0
SeekCurrent == 1
SeekEnd == 2

\* a lookup without the test against endOffset
GetIndexByDecompOffset_noBound(rd, off) == DescendLessOrEqual(rd.index, off)

\* readerImpl.GetIndexByDecompOffset
GetIndexByDecompOffset(rd, off) ==
    IF off >= rd.endOffset THEN NilEntry
    ELSE DescendLessOrEqual(rd.index, off)

\* a replace that files every buffer under offset 0
cachedFrame_replace_dropsOffset(offset, data) == [offset |-> 0, data |-> data]

\* cachedFrame.get / cachedFrame.replace: both fields under the one mutex
cachedFrame_get(c) == c
cachedFrame_replace(offset, data) == [offset |-> offset, data |-> data]

\* a fast path that is never taken
CacheHit_never(c, index) == FALSE

\* the fast path taken whenever the slot holds any buffer
CacheHit_ignoresOffset(c, index) == c.data # Nil

\* the fast path test of read
CacheHit(c, index) == c.offset = index.DecompOffset /\ c.data # Nil

\* a copy of the rest of the frame whatever the length of dst
CopySize_ignoresDst(lenDecompressed, offsetWithinFrame, lenDst) ==
    lenDecompressed - offsetWithinFrame

\* a copy that always leaves the last byte of dst unfilled
CopySize_leavesOne(lenDecompressed, offsetWithinFrame, lenDst) ==
    Min(lenDecompressed - offsetWithinFrame, lenDst - 1)

\* the number of bytes read copies: what is left of the frame, at most len(dst)
CopySize(lenDecompressed, offsetWithinFrame, lenDst) ==
    Min(lenDecompressed - offsetWithinFrame, lenDst)

\* a reader that never compares checksums
ChecksumMismatch_never(rd, index, decompressed) == FALSE

\* the checksum test of read: made only when the footer's flag is set
ChecksumMismatch(rd, index, decompressed) ==
    rd.checksums /\ index.Checksum # Checksum32(Bytes(decompressed))

\* readerImpl.GetIndexByID: Descend until the item with this ID
GetIndexByID(rd, id) ==
    IF id < 0 THEN NilEntry
    ELSE IF \E i \in 1..Len(rd.index) : rd.index[i].ID = id
         THEN rd.index[CHOOSE i \in 1..Len(rd.index) : rd.index[i].ID = id]
         ELSE NilEntry

\* r.index is nil: Close has run
IndexDropped(rd) == ~rd.hasIndex

\* GetIndexByDecompOffset and GetIndexByID call a method of btree.BTreeG on
\* r.index once their first test has passed: a nil pointer dereference when
\* the index was dropped
GetIndexByDecompOffset_panics(rd, off) == off < rd.endOffset /\ IndexDropped(rd)
GetIndexByID_panics(rd, id) == id >= 0 /\ IndexDropped(rd)

\* a read that never compares the length of the buffer with the entry
IndexCorruption_never(decompressed, index) == FALSE

\* the test of read after both paths: len(decompressed) != DecompSize
IndexCorruption(decompressed, index) == SliceLen(decompressed) # index.DecompSize

\* a closed flag that always reads false
IsClosed_never(rd) == FALSE

\* r.closed.Load()
IsClosed(rd) == rd.closed

\* readerImpl.read(dst, off): the new offset, the count, the error, the bytes
\* copied into dst, the cache slot afterwards and whether the environment was
\* asked for a frame
readerImpl_read(rd, f, dstLen, off) ==
    LET index == GetIndexByDecompOffset(rd, off)
        c == cachedFrame_get(rd.cachedFrame)
        src == envGetFrameByIndex(rd, f, index)
        ret(o, n, e, d, c2, g) == [off |-> o, n |-> n, err |-> e, data |-> d,
                                   cachedFrame |-> c2, fetched |-> g,
                                   rsPos |-> IF g THEN src.rsPos ELSE rd.rsPos]
        fail(e) == ret(0, 0, e, <<>>, rd.cachedFrame, FALSE)
        dec == DecodeAll(src.p)
    IN
    IF IsClosed(rd) THEN fail("closed")
    ELSE IF off >= rd.endOffset THEN fail("EOF")
    ELSE IF off < 0 THEN fail("negative offset")
    ELSE IF index = NilEntry THEN fail("index lookup")
    ELSE IF off < index.DecompOffset \/ off > index.DecompOffset + index.DecompSize
         THEN fail("out of bounds")
    ELSE LET hit == CacheHit(c, index)
             slowErr ==
                 IF hit THEN "nil"
                 ELSE IF index.CompSize > maxDecoderFrameSize THEN "frame too big"
                 ELSE IF src.err # "nil" THEN "env"
                 ELSE IF Len(src.p) # index.CompSize THEN "short compressed"
                 ELSE IF dec.err # "nil" THEN "decode"
                 ELSE IF ChecksumMismatch(rd, index, dec.data) THEN "checksum"
                 ELSE "nil"
             decompressed == IF hit THEN c.data ELSE dec.data
             cache == IF hit THEN rd.cachedFrame
                      ELSE cachedFrame_replace(index.DecompOffset, decompressed)
         IN
         IF slowErr # "nil"
         THEN ret(0, 0, slowErr, <<>>, rd.cachedFrame, slowErr # "frame too big")
         ELSE IF IndexCorruption(decompressed, index)
              THEN ret(0, 0, "index corruption", <<>>, cache, ~hit)
         ELSE LET offsetWithinFrame == off - index.DecompOffset
                  size == CopySize(SliceLen(decompressed), offsetWithinFrame, dstLen)
              IN  ret(off + size, size, "nil",
                      Slice(Bytes(decompressed), offsetWithinFrame, offsetWithinFrame + size),
                      cache, ~hit)

\* ReadAt that calls read once and does not retry
ReadAtLoop_once(rd, f, len, off, n, data, g) ==
    IF n >= len THEN [n |-> n, err |-> "nil", data |-> data, cachedFrame |-> rd.cachedFrame,
                      fetched |-> g, rsPos |-> rd.rsPos]
    ELSE LET m == readerImpl_read(rd, f, len - n, off + n)
         IN  [n |-> n + m.n, err |-> m.err, data |-> data \o m.data,
              cachedFrame |-> m.cachedFrame, fetched |-> g \/ m.fetched,
              rsPos |-> m.rsPos]

\* ReadAt that calls read before it tests n < len(p)
ReadAtLoop_readsFirst(rd, f, len, off, n, data, g) ==
    LET m == readerImpl_read(rd, f, len - n, off + n)
    IN  [n |-> n + m.n, err |-> m.err, data |-> data \o m.data,
         cachedFrame |-> m.cachedFrame, fetched |-> g \/ m.fetched,
         rsPos |-> m.rsPos]

\* readerImpl.ReadAt: the loop, n bytes already copied
RECURSIVE ReadAtLoop(_, _, _, _, _, _, _)
ReadAtLoop(rd, f, len, off, n, data, g) ==
    IF n >= len THEN [n |-> n, err |-> "nil", data |-> data, cachedFrame |-> rd.cachedFrame,
                      fetched |-> g, rsPos |-> rd.rsPos]
    ELSE LET m == readerImpl_read(rd, f, len - n, off + n)
             rd2 == [rd EXCEPT !.cachedFrame = m.cachedFrame, !.rsPos = m.rsPos]
         IN  IF m.err # "nil"
             THEN [n |-> n + m.n, err |-> m.err, data |-> data \o m.data,
                   cachedFrame |-> m.cachedFrame, fetched |-> g \/ m.fetched,
                   rsPos |-> m.rsPos]
             ELSE ReadAtLoop(rd2, f, len, off, n + m.n, data \o m.data, g \/ m.fetched)

\* a ReadAt that leaves the cursor behind the bytes it read
ReadAtCursor_advanced(rd, res) == rd.offset + res.n

\* readerImpl.ReadAt: the cursor afterwards; r.offset is not assigned
ReadAtCursor(rd, res) == rd.offset

\* readerImpl.ReadAt(p, off)
readerImpl_ReadAt(rd, f, len, off) == ReadAtLoop(rd, f, len, off, 0, <<>>, FALSE)

\* a cursor that is not moved to endOffset on io.EOF
ReadOffset_noClamp(rd, m) ==
    IF m.err = "nil" THEN m.off ELSE rd.offset

\* a cursor advanced by len(p) of the caller, not by the count read
ReadOffset_advancesByLen(rd, m) ==
    IF m.err = "nil" THEN rd.offset + m.len
    ELSE IF m.err = "EOF" THEN rd.endOffset
    ELSE rd.offset

\* readerImpl.Read: the cursor after read returned m
ReadOffset(rd, m) ==
    IF m.err = "nil" THEN m.off
    ELSE IF m.err = "EOF" THEN rd.endOffset
    ELSE rd.offset

\* readerImpl.Read(p)
readerImpl_Read(rd, f, len) ==
    LET m == readerImpl_read(rd, f, len, rd.offset) IN
    [n |-> m.n, err |-> m.err, data |-> m.data, fetched |-> m.fetched,
     r |-> [rd EXCEPT !.cachedFrame = m.cachedFrame, !.rsPos = m.rsPos,
                      !.offset = ReadOffset(rd, [off |-> m.off, err |-> m.err, len |-> len])]]

\* Seek that moves the cursor but returns (0, nil)
readerImpl_Seek_returnsZero(rd, offset, whence) ==
    LET newOffset == CASE whence = 1 -> rd.offset + offset
                       [] whence = 0 -> offset
                       [] whence = 2 -> rd.endOffset + offset
                       [] OTHER -> rd.offset
    IN  IF whence \notin {0, 1, 2}
        THEN [pos |-> 0, err |-> "unknown whence", r |-> rd]
        ELSE IF newOffset < 0 THEN [pos |-> 0, err |-> "negative offset", r |-> rd]
        ELSE [pos |-> 0, err |-> "nil", r |-> [rd EXCEPT !.offset = newOffset]]

\* Seek that takes io.SeekEnd for io.SeekCurrent and the reverse
readerImpl_Seek_swapsWhence(rd, offset, whence) ==
    LET newOffset == CASE whence = SeekEnd -> rd.offset + offset
                       [] whence = SeekStart -> offset
                       [] whence = SeekCurrent -> rd.endOffset + offset
                       [] OTHER -> rd.offset
    IN  IF whence \notin {SeekCurrent, SeekStart, SeekEnd}
        THEN [pos |-> 0, err |-> "unknown whence", r |-> rd]
        ELSE IF newOffset < 0 THEN [pos |-> 0, err |-> "negative offset", r |-> rd]
        ELSE [pos |-> newOffset, err |-> "nil", r |-> [rd EXCEPT !.offset = newOffset]]

\* readerImpl.Seek(offset, whence)
readerImpl_Seek(rd, offset, whence) ==
    LET newOffset == CASE whence = SeekCurrent -> rd.offset + offset
                       [] whence = SeekStart -> offset
                       [] whence = SeekEnd -> rd.endOffset + offset
                       [] OTHER -> rd.offset
    IN  IF whence \notin {SeekCurrent, SeekStart, SeekEnd}
        THEN [pos |-> 0, err |-> "unknown whence", r |-> rd]
        ELSE IF newOffset < 0 THEN [pos |-> 0, err |-> "negative offset", r |-> rd]
        ELSE [pos |-> newOffset, err |-> "nil", r |-> [rd EXCEPT !.offset = newOffset]]

\* readerImpl.Close()
readerImpl_Close(rd) ==
    IF rd.closed THEN rd
    ELSE [rd EXCEPT !.closed = TRUE,
                    !.cachedFrame = cachedFrame_replace(MaxUint64, Nil),
                    !.index = <<>>, !.hasIndex = FALSE]

\* the file a writer produces for the frames fs: Write each, then Close
RECURSIVE WriteAll(_, _, _, _)
WriteAll(fs, s, o, lg) ==
    IF fs = <<>> THEN writerImpl_Close(s, "ok", o, lg).out
    ELSE LET x == writerImpl_Write(s, Head(fs), "ok", o, lg)
         IN  WriteAll(Tail(fs), x.s, x.out, x.log)
WrittenFile(fs) == WriteAll(fs, NewWriter, <<>>, <<>>)

------------------------------------------------------------------------------
(* Inputs *)

\* the uncompressed stream is a prefix of a text of pairwise distinct bytes
TextByte(pos) == 65 + pos
TextSlice(a, b) == [i \in 1..(b - a) |-> TextByte(a + i - 1)]

RECURSIVE SumLen(_)
SumLen(fs) == IF fs = <<>> THEN 0 ELSE Len(Head(fs)) + SumLen(Tail(fs))

\* the frames of the text cut at the given lengths
RECURSIVE Cut(_, _)
Cut(lens, at) ==
    IF lens = <<>> THEN <<>>
    ELSE <<TextSlice(at, at + Head(lens))>> \o Cut(Tail(lens), at + Head(lens))

FrameSeqs == { Cut(lens, 0) : lens \in UNION { [1..n -> 1..MaxFrameLen] : n \in 0..MaxFrames } }

NoCall == [op |-> "none"]

------------------------------------------------------------------------------
(* SpecW: one serial writer; Write and Close in any order *)

InitW ==
    /\ frames = <<>>
    /\ file = <<>>
    /\ r = [closed |-> TRUE]
    /\ call = NoCall
    /\ w = NewWriter
    /\ out = <<>>
    /\ envLog = <<>>
    /\ wcall = [op |-> "none", writes |-> 0, closes |-> 0]
    /\ procs = <<>>
    /\ wm = <<>>

\* Write(src): src is empty or the next 1..MaxFrameLen bytes of the text
Write(src, mode) ==
    /\ wcall.writes < MaxWrites
    /\ LET res == writerImpl_Write(w, src, mode, out, envLog) IN
       /\ w' = res.s
       /\ out' = res.out
       /\ envLog' = res.log
       /\ frames' = IF src = <<>> THEN frames ELSE Append(frames, src)
       /\ wcall' = [op |-> "Write", src |-> src, n |-> res.n, err |-> res.err,
                    writes |-> wcall.writes + 1, closes |-> wcall.closes]
    /\ UNCHANGED <<file, r, call, procs, wm>>

CloseWriter(mode) ==
    /\ wcall.closes < MaxCloses
    /\ LET res == writerImpl_Close(w, mode, out, envLog) IN
       /\ w' = res.s
       /\ out' = res.out
       /\ envLog' = res.log
       /\ wcall' = [op |-> "Close", src |-> <<>>, n |-> 0, err |-> res.err,
                    writes |-> wcall.writes, closes |-> wcall.closes + 1]
    /\ UNCHANGED <<frames, file, r, call, procs, wm>>

NextW ==
    \/ \E l \in 0..MaxFrameLen, mode \in EnvModes :
          Write(TextSlice(SumLen(frames), SumLen(frames) + l), mode)
    \/ \E mode \in EnvModes : CloseWriter(mode)

SpecW == InitW /\ [][NextW]_vars

------------------------------------------------------------------------------
(* Claims about the serial writer *)

AllAccepted == \A i \in 1..Len(envLog) : envLog[i].err = "nil" /\ envLog[i].n = envLog[i].offered
TableCalls == Cardinality({ i \in 1..Len(envLog) : envLog[i].kind = "table" })
WrittenThenClosed ==
    /\ envLog # <<>>
    /\ envLog[Len(envLog)].kind = "table"
    /\ AllAccepted

EncodedFrames == Concat([i \in 1..Len(frames) |-> EncodeAll(frames[i])])

\* C3: after Write(F_0) .. Write(F_{N-1}) of non-empty frames all succeed and
\* Close is called, the bytes emitted are enc(F_0) || .. || enc(F_{N-1}) followed
\* by exactly one seek table skippable frame (magic 0x184D2A5E, size 12N+9)
\* whose i-th entry is (|enc(F_i)|, |F_i|, checksum of F_i) and whose footer
\* carries N, the checksum flag (0x80) and the seekable magic; decoding the whole
\* output, skippable frames skipped, yields F_0 || .. || F_{N-1}.
C3_WriterOutput ==
    WrittenThenClosed =>
        LET N == Len(frames)
            B == Len(EncodedFrames)
            t == Slice(out, B, Len(out))
        IN  /\ TableCalls = 1
            /\ Len(out) = B + 8 + 12 * N + 9
            /\ Slice(out, 0, B) = EncodedFrames
            /\ Slice(t, 0, 4) = <<94, 42, 77, 24>>
            /\ Uint32(t, 4) = 12 * N + 9
            /\ \A i \in 0..(N - 1) :
                  /\ Uint32(t, 8 + 12 * i) = Len(EncodeAll(frames[i + 1]))
                  /\ Uint32(t, 8 + 12 * i + 4) = Len(frames[i + 1])
                  /\ Uint32(t, 8 + 12 * i + 8) = Checksum32(frames[i + 1])
            /\ Uint32(t, 8 + 12 * N) = N
            /\ t[8 + 12 * N + 5] = 128
            /\ Slice(t, 8 + 12 * N + 5, 8 + 12 * N + 9) = <<177, 234, 146, 143>>
            /\ DecodeAll(out).err = "nil"
            /\ Bytes(DecodeAll(out).data) = Concat(frames)

C3_Witness == WrittenThenClosed /\ Len(frames) = 2 /\ Len(frames[1]) # Len(frames[2])

\* C10: over any sequence of Close calls on a writer the seek table is handed
\* to the environment exactly once, by the first call; every later Close
\* returns no error and emits nothing.
C10_CloseOnce ==
    /\ [](TableCalls = IF wcall.closes >= 1 THEN 1 ELSE 0)
    /\ [][ (wcall'.closes = wcall.closes + 1 /\ wcall.closes >= 1)
             => (wcall'.err = "nil" /\ out' = out /\ envLog' = envLog) ]_vars

C10_Witness == wcall.op = "Close" /\ wcall.closes = 2 /\ Len(frames) >= 1

\* C11: in any sequence of Write and Close calls on one writer the seek table
\* is the last thing emitted: once the environment has accepted the seek
\* table, no frame bytes are handed to it.
C11_SeekTableLast ==
    \A i, j \in 1..Len(envLog) :
        (i < j /\ envLog[i].kind = "table" /\ envLog[i].err = "nil"
               /\ envLog[i].n = envLog[i].offered)
            => ~(envLog[j].kind = "frame" /\ envLog[j].n > 0)

\* C15: whenever the environment accepts fewer bytes than it was offered, for
\* a frame in Write or for the seek table in Close, the call fails with the
\* partial-write error.
C15_ShortWriteFails ==
    [][ (/\ Len(envLog') = Len(envLog) + 1
         /\ envLog'[Len(envLog')].err = "nil"
         /\ envLog'[Len(envLog')].n < envLog'[Len(envLog')].offered)
            => wcall'.err = "partial write" ]_vars

\* C16: a Write that succeeds returns len(src); a Write with an empty src
\* returns 0 and no error and has no side effect: no entry is appended and the
\* environment is not called.
C16_WriteResult ==
    [][ (wcall'.op = "Write" /\ wcall'.writes = wcall.writes + 1) =>
            /\ wcall'.err = "nil" => wcall'.n = Len(wcall'.src)
            /\ wcall'.src = <<>> =>
                  /\ wcall'.n = 0 /\ wcall'.err = "nil"
                  /\ w' = w /\ envLog' = envLog /\ out' = out ]_vars

\* C29: a Write that fails because the environment returned an error or a
\* short count leaves the writer's entry list as it was before the call.
C29_FailedWriteNoEntry ==
    [][ (wcall'.op = "Write" /\ wcall'.writes = wcall.writes + 1
            /\ wcall'.err \in {"env", "partial write"})
          => w'.frameEntries = w.frameEntries ]_vars

------------------------------------------------------------------------------
(* Spec: one reader opened on the file a writer produced; Read, ReadAt, Seek *)
(* and Close in any order, each call returning before the next starts       *)

\* the reader over a source that is an io.ReaderAt, or only an io.ReadSeeker
WithSource(rd, readerAt) == [rd EXCEPT !.readerAt = readerAt]

Init ==
    /\ frames \in FrameSeqs
    /\ file = WrittenFile(frames)
    /\ \E readerAt \in BOOLEAN : r = WithSource(NewReader(file).r, readerAt)
    /\ call = NoCall
    /\ w = NewWriter
    /\ out = <<>>
    /\ envLog = <<>>
    /\ wcall = NoCall
    /\ procs = <<>>
    /\ wm = <<>>

ReadAt(len, off) ==
    /\ call = NoCall
    /\ LET res == readerImpl_ReadAt(r, file, len, off) IN
       /\ r' = [r EXCEPT !.cachedFrame = res.cachedFrame, !.rsPos = res.rsPos,
                         !.offset = ReadAtCursor(r, res)]
       /\ call' = [op |-> "ReadAt", len |-> len, off |-> off, whence |-> 0,
                   pre |-> r.offset, open |-> ~r.closed,
                   n |-> res.n, err |-> res.err, data |-> res.data, pos |-> 0,
                   fetched |-> res.fetched]
    /\ UNCHANGED <<frames, file, w, out, envLog, wcall, procs, wm>>

Read(len) ==
    /\ call = NoCall
    /\ LET res == readerImpl_Read(r, file, len) IN
       /\ r' = res.r
       /\ call' = [op |-> "Read", len |-> len, off |-> 0, whence |-> 0,
                   pre |-> r.offset, open |-> ~r.closed,
                   n |-> res.n, err |-> res.err, data |-> res.data, pos |-> 0,
                   fetched |-> res.fetched]
    /\ UNCHANGED <<frames, file, w, out, envLog, wcall, procs, wm>>

Seek(offset, whence) ==
    /\ call = NoCall
    /\ LET res == readerImpl_Seek(r, offset, whence) IN
       /\ res.pos <= r.endOffset + MaxPast
       /\ r' = res.r
       /\ call' = [op |-> "Seek", len |-> 0, off |-> offset, whence |-> whence,
                   pre |-> r.offset, open |-> ~r.closed,
                   n |-> 0, err |-> res.err, data |-> <<>>, pos |-> res.pos,
                   fetched |-> FALSE]
    /\ UNCHANGED <<frames, file, w, out, envLog, wcall, procs, wm>>

CloseReader ==
    /\ call = NoCall
    /\ r' = readerImpl_Close(r)
    /\ call' = [op |-> "Close", len |-> 0, off |-> 0, whence |-> 0,
                pre |-> r.offset, open |-> ~r.closed,
                n |-> 0, err |-> "nil", data |-> <<>>, pos |-> 0, fetched |-> FALSE]
    /\ UNCHANGED <<frames, file, w, out, envLog, wcall, procs, wm>>

\* the caller takes the result of the call that returned
Return ==
    /\ call # NoCall
    /\ call' = NoCall
    /\ UNCHANGED <<frames, file, r, w, out, envLog, wcall, procs, wm>>

Next ==
    \/ \E len \in 0..MaxBuf, off \in (0 - 1)..(r.endOffset + MaxPast) : ReadAt(len, off)
    \/ \E len \in 0..MaxBuf : Read(len)
    \/ \E offset \in (0 - MaxSeek)..MaxSeek, whence \in SeekStart..(SeekEnd + 1) :
          Seek(offset, whence)
    \/ CloseReader
    \/ Return

Spec == Init /\ [][Next]_vars

------------------------------------------------------------------------------
(* Claims about the reader, against the stream S the writer was given *)

S == Concat(frames)
EndOfStream == Len(S)

\* the end, in S, of the frame that contains offset c (0 <= c < |S|)
FrameEnd(c) ==
    LET ends == { SumLen(SubSeq(frames, 1, k)) : k \in 1..Len(frames) }
    IN  CHOOSE e \in ends : e > c /\ \A e2 \in ends : e2 > c => e <= e2

\* C1: on an open reader, ReadAt with a buffer of b-a bytes at offset a,
\* 0 <= a <= b <= |S|, returns exactly b-a bytes equal to S[a..b], across
\* frame boundaries and whatever the cache held.
C1_ReadAtRange ==
    (call.op = "ReadAt" /\ call.open /\ call.off >= 0 /\ call.off + call.len <= EndOfStream)
        => (call.n = call.len /\ call.data = Slice(S, call.off, call.off + call.len))

C1_Witness ==
    /\ call.op = "ReadAt" /\ call.open
    /\ Len(frames) = 2
    /\ call.off = 0 /\ call.len = EndOfStream /\ call.len > Len(frames[1])
    /\ r.cachedFrame.offset = Len(frames[1])

\* C4: ReadAt returns fewer bytes than len(p) only with a non-nil error; on an
\* open reader a non-empty read inside [0, end_of_stream] fills the buffer with
\* nil error, one that starts before end_of_stream and extends beyond it returns
\* the bytes up to end_of_stream with io.EOF, and one that starts at or after
\* end_of_stream returns 0 bytes with io.EOF.
C4_ReadAtContract ==
    call.op = "ReadAt" =>
        /\ (call.n < call.len => call.err # "nil")
        /\ (call.open /\ call.off >= 0 /\ call.len > 0) =>
              /\ (call.off + call.len <= EndOfStream)
                    => (call.n = call.len /\ call.err = "nil")
              /\ (call.off < EndOfStream /\ call.off + call.len > EndOfStream)
                    => /\ call.n = EndOfStream - call.off
                       /\ call.err = "EOF"
                       /\ call.data = Slice(S, call.off, EndOfStream)
              /\ (call.off >= EndOfStream) => (call.n = 0 /\ call.err = "EOF")

C4_Witness ==
    /\ call.op = "ReadAt" /\ call.open /\ Len(frames) = 2
    /\ call.off < Len(frames[1]) /\ call.off + call.len > EndOfStream
    /\ call.err = "EOF" /\ call.n = EndOfStream - call.off

\* C6: on an open reader a Read with a non-empty buffer at cursor c <
\* end_of_stream returns k = min(len(p), end of the frame containing c - c) >= 1
\* bytes equal to S[c..c+k] with nil error and moves the cursor to c + k; a
\* ReadAt with a k-byte buffer at offset c returns those same k bytes.
C6_ReadWithinFrame ==
    (call.op = "Read" /\ call.open /\ call.len > 0 /\ call.pre < EndOfStream) =>
        LET k  == Min(call.len, FrameEnd(call.pre) - call.pre)
            ra == readerImpl_ReadAt(r, file, k, call.pre)
        IN  /\ k >= 1
            /\ call.n = k
            /\ call.err = "nil"
            /\ call.data = Slice(S, call.pre, call.pre + k)
            /\ r.offset = call.pre + k
            /\ ra.n = k /\ ra.data = call.data

C6_Witness ==
    /\ call.op = "Read" /\ call.open /\ Len(frames) = 2
    /\ call.pre < Len(frames[1]) /\ call.pre > 0
    /\ call.pre + call.len > Len(frames[1])
    /\ call.n = Len(frames[1]) - call.pre

\* C7 as stated: for any 0 <= a <= b <= |S|, a sequential read with a buffer
\* of b-a bytes at cursor a returns the same result as ReadAt(a, b-a), namely
\* S[a..b].
C7_SeekReadEqualsReadAt ==
    (call.op = "Read" /\ call.open /\ call.pre + call.len <= EndOfStream) =>
        /\ call.data = Slice(S, call.pre, call.pre + call.len)
        /\ call.data = readerImpl_ReadAt(r, file, call.len, call.pre).data

\* C7 amended: for any 0 <= a <= b <= |S|, a sequential read with a buffer of
\* b-a bytes at cursor a returns S[a..a+k], k = min(b-a, end of the frame
\* containing a - a) (k = 0 at a = |S|), the same bytes as ReadAt(a, k); when
\* a..b lies inside one frame that is S[a..b], the result of ReadAt(a, b-a).
C7_SeekReadWithinFrame ==
    (call.op = "Read" /\ call.open /\ call.pre + call.len <= EndOfStream) =>
        LET k == IF call.pre < EndOfStream
                 THEN Min(call.len, FrameEnd(call.pre) - call.pre) ELSE 0
        IN  /\ call.n = k
            /\ call.data = Slice(S, call.pre, call.pre + k)
            /\ call.data = readerImpl_ReadAt(r, file, k, call.pre).data
            /\ (k = call.len) =>
                  /\ call.data = Slice(S, call.pre, call.pre + call.len)
                  /\ call.data = readerImpl_ReadAt(r, file, call.len, call.pre).data

C7_Witness ==
    /\ call.op = "Read" /\ call.open /\ Len(frames) = 2
    /\ call.pre > 0 /\ call.pre < Len(frames[1])
    /\ call.pre + call.len <= EndOfStream
    /\ call.pre + call.len > Len(frames[1])
    /\ call.n < call.len

\* C8: Seek(offset, whence) computes the target offset (Start), cursor+offset
\* (Current) or end_of_stream+offset (End); a target >= 0 becomes the cursor and
\* is returned, also beyond end_of_stream; a negative target or an unknown
\* whence returns an error and leaves the cursor unchanged.
C8_Seek ==
    call.op = "Seek" =>
        LET known  == call.whence \in {0, 1, 2}
            target == CASE call.whence = 0 -> call.off
                        [] call.whence = 1 -> call.pre + call.off
                        [] OTHER -> EndOfStream + call.off
        IN  /\ (known /\ target >= 0)
                  => (call.err = "nil" /\ call.pos = target /\ r.offset = target)
            /\ (~known \/ target < 0) => (call.err # "nil" /\ r.offset = call.pre)

C8_Witness ==
    /\ call.op = "Seek" /\ call.whence = 2 /\ call.off > 0
    /\ call.err = "nil" /\ call.pos > EndOfStream /\ EndOfStream > 0

\* C9: on an open reader a Read issued with the cursor at or beyond
\* end_of_stream, for any buffer including the empty one, returns 0 bytes with
\* io.EOF and leaves the cursor at end_of_stream, so that Seek(0, Current) then
\* reports end_of_stream.
C9_ReadAtEnd ==
    (call.op = "Read" /\ call.open /\ call.pre >= EndOfStream) =>
        /\ call.n = 0
        /\ call.err = "EOF"
        /\ r.offset = EndOfStream
        /\ readerImpl_Seek(r, 0, SeekCurrent).err = "nil"
        /\ readerImpl_Seek(r, 0, SeekCurrent).pos = EndOfStream

C9_Witness ==
    /\ call.op = "Read" /\ call.open /\ call.pre > EndOfStream /\ EndOfStream > 0
    /\ call.len = 0 /\ r.offset = EndOfStream

\* C12: reader Close is idempotent: every call returns no error and a Close
\* of a closed reader changes nothing; after the first Close every Read and
\* every ReadAt with a non-empty buffer returns 0 bytes and the reader-closed
\* error, whatever the cursor or offset, without asking the environment for a
\* frame and without moving the cursor.
C12_CloseThenRead ==
    /\ [](call.op = "Close" => call.err = "nil")
    /\ []((call.op \in {"Read", "ReadAt"} /\ ~call.open /\ call.len > 0)
            => (call.n = 0 /\ call.err = "closed" /\ ~call.fetched
                  /\ r.offset = call.pre))
    /\ [][(r.closed /\ call'.op = "Close") => r' = r]_vars

C12_Witness ==
    /\ call.op = "ReadAt" /\ ~call.open /\ call.len > 0
    /\ call.off >= 0 /\ call.off + call.len <= EndOfStream
    /\ call.err = "closed"

\* C17: closing a writer to which no non-empty frame was written (nothing, or
\* only an empty src) emits exactly the seek table skippable frame with N = 0;
\* NewReader on that file succeeds with end_of_stream = 0 and num_frames = 0,
\* and a Read on the freshly opened reader returns 0 bytes and io.EOF.
C17_EmptyFile ==
    frames = <<>> =>
        /\ file = <<94, 42, 77, 24>> \o PutUint32(9) \o PutUint32(0)
                     \o <<128>> \o <<177, 234, 146, 143>>
        /\ WriteAll(<< <<>> >>, NewWriter, <<>>, <<>>) = file
        /\ NewReader(file).err = "nil"
        /\ NewReader(file).r.endOffset = 0
        /\ NewReader(file).r.numFrames = 0
        /\ readerImpl_Read(NewReader(file).r, file, 1).n = 0
        /\ readerImpl_Read(NewReader(file).r, file, 1).err = "EOF"
        /\ (call.op = "Read" /\ call.open) => (call.n = 0 /\ call.err = "EOF")

C17_Witness ==
    /\ frames = <<>> /\ Len(file) = 17
    /\ call.op = "Read" /\ call.open /\ call.len > 0 /\ call.pre = 0
    /\ call.err = "EOF"

\* C25 as claimed: ReadAt with an empty buffer returns 0 and no error for
\* 0 <= off <= endOffset, and 0 and io.EOF for off > endOffset.
C25_ZeroLenReadAt ==
    (call.op = "ReadAt" /\ call.len = 0 /\ call.off >= 0) =>
        /\ call.n = 0
        /\ call.err = IF call.off <= r.endOffset THEN "nil" ELSE "EOF"

\* C25 as amended: ReadAt with an empty buffer returns 0 and no error for
\* every off >= 0, beyond endOffset as well; it calls neither read nor the
\* environment.
C25_ZeroLenReadAtNoError ==
    (call.op = "ReadAt" /\ call.len = 0 /\ call.off >= 0) =>
        /\ call.n = 0
        /\ call.err = "nil"
        /\ call.data = <<>>
        /\ ~call.fetched

C25_Witness ==
    /\ call.op = "ReadAt" /\ call.len = 0 /\ call.open
    /\ r.endOffset > 0
    /\ call.off = r.endOffset + 1
    /\ call.n = 0 /\ call.err = "nil"

\* C24: ReadAt, whether it succeeds or fails and whether the source is an
\* io.ReaderAt or only an io.ReadSeeker, leaves the cursor where it was, so
\* Seek(0, SeekCurrent) returns the same position before and after it; and
\* what it returns is the same wherever the cursor stands.
C24_ReadAtNoCursor ==
    [][ call'.op = "ReadAt" =>
          /\ r'.offset = r.offset
          /\ readerImpl_Seek(r', 0, SeekCurrent).pos = readerImpl_Seek(r, 0, SeekCurrent).pos
          /\ readerImpl_Seek(r', 0, SeekCurrent).err = "nil"
          /\ \A c \in 0..(r.endOffset + MaxPast) :
                LET other == readerImpl_ReadAt([r EXCEPT !.offset = c], file,
                                               call'.len, call'.off)
                IN  /\ other.n = call'.n
                    /\ other.err = call'.err
                    /\ other.data = call'.data ]_vars

C24_Witness ==
    /\ call.op = "ReadAt" /\ call.n = 2 /\ call.fetched /\ call.err = "nil"
    /\ ~r.readerAt
    /\ r.offset = 1 /\ call.pre = 1 /\ call.off = 0
    /\ r.rsPos < Len(file)

\* the slot as it is after frame index was read: its offset and its body
SlotOf(index) ==
    [offset |-> index.DecompOffset,
     data |-> Slice(S, index.DecompOffset, index.DecompOffset + index.DecompSize)]

\* C38: the cache is one slot keyed by the decompressed offset of a frame.
\* After a read that succeeded the slot holds the offset and the body of the
\* frame the read resolved to (for ReadAt, the last it resolved to); a read
\* that resolves to the frame in the slot does not ask the environment for
\* it, a read that resolves to another frame fetches it and replaces the slot.
C38_SingleSlot ==
    [][ /\ (call'.op = "Read" /\ call'.err = "nil" /\ call'.n >= 1) =>
              LET index == GetIndexByDecompOffset(r, r.offset) IN
              /\ r'.cachedFrame = SlotOf(index)
              /\ call'.fetched <=> r.cachedFrame # SlotOf(index)
              /\ ~call'.fetched => r'.rsPos = r.rsPos
        /\ (call'.op = "ReadAt" /\ call'.err = "nil" /\ call'.n >= 1) =>
              LET first == GetIndexByDecompOffset(r, call'.off)
                  last  == GetIndexByDecompOffset(r, call'.off + call'.n - 1)
              IN  /\ r'.cachedFrame = SlotOf(last)
                  /\ first = last => (call'.fetched <=> r.cachedFrame # SlotOf(first))
                  /\ first # last => call'.fetched
      ]_vars

C38_Witness ==
    /\ call.op = "Read" /\ call.err = "nil" /\ call.n >= 1 /\ ~call.fetched
    /\ call.pre > 0
    /\ r.cachedFrame.offset > 0 /\ r.cachedFrame.data # Nil

------------------------------------------------------------------------------
(* SpecRA: several callers run ReadAt at once on one open reader. A step is  *)
(* one access to what the callers share (the atomic closed flag, the cache   *)
(* slot under its mutex) together with the local computation that follows it *)

Procs == 1..NumProcs

Idle == [pc |-> "idle", len |-> 0, off |-> 0, n |-> 0, err |-> "nil", data |-> <<>>,
         index |-> NilEntry, decompressed |-> Nil, fast |-> FALSE]

\* the stream the callers read: two frames of different lengths
FixtureSeqs == { Cut(<<1, 2>>, 0) }

InitRA ==
    /\ frames \in FixtureSeqs
    /\ file = WrittenFile(frames)
    /\ r = NewReader(file).r
    /\ call = NoCall
    /\ w = NewWriter
    /\ out = <<>>
    /\ envLog = <<>>
    /\ wcall = NoCall
    /\ procs = [p \in Procs |-> Idle]
    /\ wm = <<>>

\* ReadAt(p, off) is entered: n = 0, err = nil, and the loop test
RACall(p, len, off) ==
    /\ procs[p].pc = "idle"
    /\ procs' = [procs EXCEPT ![p] =
                   [Idle EXCEPT !.pc = IF 0 < len THEN "read" ELSE "return",
                                !.len = len, !.off = off]]
    /\ UNCHANGED <<frames, file, r, call, w, out, envLog, wcall, wm>>

\* read, up to the cache lookup: the closed flag, the range checks, the index
RAEnter(p) ==
    /\ procs[p].pc = "read"
    /\ LET me    == procs[p]
           off   == me.off + me.n
           index == GetIndexByDecompOffset(r, off)
           fail(e) == [me EXCEPT !.err = e, !.pc = "return"]
       IN  procs' = [procs EXCEPT ![p] =
             IF IsClosed(r) THEN fail("closed")
             ELSE IF off >= r.endOffset THEN fail("EOF")
             ELSE IF off < 0 THEN fail("negative offset")
             ELSE IF index = NilEntry THEN fail("index lookup")
             ELSE IF off < index.DecompOffset
                       \/ off > index.DecompOffset + index.DecompSize
                  THEN fail("out of bounds")
             ELSE [me EXCEPT !.index = index, !.pc = "get"]]
    /\ UNCHANGED <<frames, file, r, call, w, out, envLog, wcall, wm>>

\* cachedFrame.get() and the test of the fast path
RAGet(p) ==
    /\ procs[p].pc = "get"
    /\ LET me == procs[p]
           c  == cachedFrame_get(r.cachedFrame)
       IN  procs' = [procs EXCEPT ![p] =
             IF CacheHit(c, me.index)
             THEN [me EXCEPT !.decompressed = c.data, !.fast = TRUE, !.pc = "copy"]
             ELSE [me EXCEPT !.fast = FALSE, !.pc = "slow"]]
    /\ UNCHANGED <<frames, file, r, call, w, out, envLog, wcall, wm>>

\* the slow path: fetch, decode, verify, then cachedFrame.replace()
RASlow(p) ==
    /\ procs[p].pc = "slow"
    /\ LET me  == procs[p]
           src == envGetFrameByIndex(r, file, me.index)
           dec == DecodeAll(src.p)
           slowErr ==
               IF me.index.CompSize > maxDecoderFrameSize THEN "frame too big"
               ELSE IF src.err # "nil" THEN "env"
               ELSE IF Len(src.p) # me.index.CompSize THEN "short compressed"
               ELSE IF dec.err # "nil" THEN "decode"
               ELSE IF ChecksumMismatch(r, me.index, dec.data) THEN "checksum"
               ELSE "nil"
       IN  IF slowErr # "nil"
           THEN /\ procs' = [procs EXCEPT ![p] = [me EXCEPT !.err = slowErr, !.pc = "return"]]
                /\ r' = r
           ELSE /\ procs' = [procs EXCEPT ![p] =
                               [me EXCEPT !.decompressed = dec.data, !.pc = "copy"]]
                /\ r' = [r EXCEPT !.cachedFrame =
                                      cachedFrame_replace(me.index.DecompOffset, dec.data)]
    /\ UNCHANGED <<frames, file, call, w, out, envLog, wcall, wm>>

\* the length check, the copy into p[n:], n += m and the loop test
RACopy(p) ==
    /\ procs[p].pc = "copy"
    /\ LET me == procs[p]
           off == me.off + me.n
           offsetWithinFrame == off - me.index.DecompOffset
           size == CopySize(SliceLen(me.decompressed), offsetWithinFrame, me.len - me.n)
       IN  procs' = [procs EXCEPT ![p] =
             IF IndexCorruption(me.decompressed, me.index)
             THEN [me EXCEPT !.err = "index corruption", !.pc = "return"]
             ELSE [me EXCEPT
                     !.data = me.data \o Slice(Bytes(me.decompressed), offsetWithinFrame,
                                               offsetWithinFrame + size),
                     !.n = me.n + size,
                     !.pc = IF me.n + size < me.len THEN "read" ELSE "return"]]
    /\ UNCHANGED <<frames, file, r, call, w, out, envLog, wcall, wm>>

\* ReadAt returns (n, err) to its caller
RAReturn(p) ==
    /\ procs[p].pc = "return"
    /\ procs' = [procs EXCEPT ![p] = Idle]
    /\ UNCHANGED <<frames, file, r, call, w, out, envLog, wcall, wm>>

NextRA ==
    \/ \E p \in Procs, len \in 1..MaxRALen, off \in 0..(r.endOffset - 1) :
          RACall(p, len, off)
    \/ \E p \in Procs : RAEnter(p)
    \/ \E p \in Procs : RAGet(p)
    \/ \E p \in Procs : RASlow(p)
    \/ \E p \in Procs : RACopy(p)
    \/ \E p \in Procs : RAReturn(p)

SpecRA == InitRA /\ [][NextRA]_vars

\* C5: whatever the interleaving of the callers' cache lookups and cache
\* replacements, a caller copies only from the decompressed body of the frame
\* its offset resolved to, and every ReadAt returns the count, the error and
\* the bytes the same call returns when it runs alone on a freshly opened
\* reader.
C5_ConcurrentReadAt ==
    \A p \in Procs :
        /\ procs[p].pc = "copy" =>
              Bytes(procs[p].decompressed) = frames[procs[p].index.ID + 1]
        /\ procs[p].pc = "return" =>
              LET alone == readerImpl_ReadAt(NewReader(file).r, file,
                                             procs[p].len, procs[p].off)
              IN  /\ procs[p].n = alone.n
                  /\ procs[p].err = alone.err
                  /\ procs[p].data = alone.data

\* a caller is about to copy from the buffer it took from the cache while a
\* peer has since replaced the slot with another frame and is copying too
C5_Witness ==
    \E p, q \in Procs :
        /\ p # q
        /\ procs[p].pc = "copy" /\ procs[p].fast
        /\ procs[q].pc = "copy" /\ ~procs[q].fast
        /\ procs[q].index.ID # procs[p].index.ID
        /\ r.cachedFrame.offset = procs[q].index.DecompOffset
        /\ procs[p].n > 0

------------------------------------------------------------------------------
(* SpecWM: one WriteMany call. The producer, the consumer and the encoders   *)
(* are tasks of one errgroup; a step is one channel operation, one call of   *)
(* the frame source or of the environment, or one start or end of a task     *)

\* the frames the frame source yields before it returns nil
SourceSeqs == { Cut([i \in 1..n |-> 1 + (i % 2)], 0) : n \in 0..MaxSourceFrames }

NotStarted == [pc |-> "new", concurrency |-> 0, pulled |-> 0,
               producer |-> "done", frame |-> 0,
               queue |-> <<>>, queueClosed |-> FALSE, promised |-> {},
               encoders |-> {}, consumer |-> "done", ch |-> 0,
               gErr |-> "nil", gCtxDone |-> FALSE, ctxDone |-> FALSE,
               ret |-> "nil", callbacks |-> <<>>, outOfOrder |-> FALSE,
               failures |-> {}]

InitWM ==
    /\ frames \in SourceSeqs
    /\ file = <<>>
    /\ r = [closed |-> TRUE]
    /\ call = NoCall
    /\ w = NewWriter
    /\ out = <<>>
    /\ envLog = <<>>
    /\ wcall = NoCall
    /\ procs = <<>>
    /\ wm = NotStarted

\* WithConcurrency(concurrency) applied to the options
WithConcurrency(concurrency) ==
    IF concurrency < 1 THEN "concurrency must be positive" ELSE "nil"

\* a limit with no room for the producer and the consumer
GroupLimit_noRoom(concurrency) == concurrency

\* g.SetLimit(opts.concurrency + 2): the encoders, the producer, the consumer
GroupLimit(concurrency) == concurrency + 2

\* make(chan chan encodeResult, opts.concurrency*2)
QueueCap(concurrency) == concurrency * 2

\* the tokens of the errgroup's semaphore that are taken: one per running task
Active(m) ==
    (IF m.producer # "done" THEN 1 ELSE 0) + (IF m.consumer # "done" THEN 1 ELSE 0)
        + Cardinality(m.encoders)

\* a failed task that does not cancel the group's context
TaskFailed_noCancel(m, err) ==
    [m EXCEPT !.gErr = IF m.gErr = "nil" THEN err ELSE m.gErr]

\* errgroup: a task returned err; the first error is kept and gCtx is cancelled
TaskFailed(m, err) ==
    [m EXCEPT !.gErr = IF m.gErr = "nil" THEN err ELSE m.gErr, !.gCtxDone = TRUE]

\* a receive from the queue that takes the promise queued last
QueueRecv_newest(q) == [ch |-> q[Len(q)], rest |-> SubSeq(q, 1, Len(q) - 1)]

\* ch = <-queue on a queue that holds a promise
QueueRecv(q) == [ch |-> Head(q), rest |-> Tail(q)]

\* WriteMany: the options, the errgroup, the queue, the two g.Go calls
WMCall(concurrency) ==
    /\ wm.pc = "new"
    /\ wm' = IF WithConcurrency(concurrency) # "nil"
             THEN [wm EXCEPT !.pc = "returned", !.ret = WithConcurrency(concurrency)]
             ELSE [wm EXCEPT !.pc = "running", !.concurrency = concurrency,
                             !.producer = "source", !.consumer = "dequeue"]
    /\ UNCHANGED <<frames, file, r, call, w, out, envLog, wcall, procs>>

\* producer: frameSource() returns the next frame, nil, or an error
PSource(fails) ==
    /\ wm.pc = "running" /\ wm.producer = "source"
    /\ wm' = IF fails
             THEN [TaskFailed(wm, "frame source failed") EXCEPT
                     !.producer = "done", !.failures = @ \cup {"frame source failed"}]
             ELSE IF wm.pulled = Len(frames)
             THEN [wm EXCEPT !.queueClosed = TRUE, !.producer = "done"]
             ELSE [wm EXCEPT !.pulled = wm.pulled + 1, !.frame = wm.pulled + 1,
                             !.producer = "enqueue"]
    /\ UNCHANGED <<frames, file, r, call, w, out, envLog, wcall, procs>>

\* a producer that puts the promise at the head of the queue
PEnqueue_atHead ==
    /\ wm.pc = "running" /\ wm.producer = "enqueue"
    /\ Len(wm.queue) < QueueCap(wm.concurrency)
    /\ wm' = [wm EXCEPT !.queue = <<wm.frame>> \o wm.queue, !.producer = "go"]
    /\ UNCHANGED <<frames, file, r, call, w, out, envLog, wcall, procs>>

\* producer: the select, case queue <- ch
PEnqueue ==
    /\ wm.pc = "running" /\ wm.producer = "enqueue"
    /\ Len(wm.queue) < QueueCap(wm.concurrency)
    /\ wm' = [wm EXCEPT !.queue = Append(wm.queue, wm.frame), !.producer = "go"]
    /\ UNCHANGED <<frames, file, r, call, w, out, envLog, wcall, procs>>

\* producer: the select, case <-ctx.Done()
PCancelled ==
    /\ wm.pc = "running" /\ wm.producer = "enqueue"
    /\ wm.gCtxDone
    /\ wm' = [wm EXCEPT !.producer = "done"]
    /\ UNCHANGED <<frames, file, r, call, w, out, envLog, wcall, procs>>

\* producer: g.Go(encoder) once the errgroup has a free slot
PGo ==
    /\ wm.pc = "running" /\ wm.producer = "go"
    /\ Active(wm) < GroupLimit(wm.concurrency)
    /\ wm' = [wm EXCEPT !.encoders = wm.encoders \cup {wm.frame}, !.producer = "source"]
    /\ UNCHANGED <<frames, file, r, call, w, out, envLog, wcall, procs>>

\* encoder of frame i: encodeOne fails and the task returns its error, or it
\* succeeds and the select puts the result into the promise ("send") or, the
\* context being done, nowhere ("drop"); the task ends
EFinish(i, how) ==
    /\ wm.pc = "running" /\ i \in wm.encoders
    /\ how = "drop" => wm.gCtxDone
    /\ LET m == IF how = "fail"
                THEN [TaskFailed(wm, "failed to encode frame") EXCEPT
                        !.failures = @ \cup {"failed to encode frame"}]
                ELSE wm
       IN  wm' = [m EXCEPT !.encoders = wm.encoders \ {i},
                           !.promised = IF how = "send" THEN wm.promised \cup {i}
                                        ELSE wm.promised,
                           !.outOfOrder = wm.outOfOrder
                                \/ (how = "send" /\ \E j \in wm.encoders : j < i)]
    /\ UNCHANGED <<frames, file, r, call, w, out, envLog, wcall, procs>>

\* consumer: the first select, case ch = <-queue; nil from the closed queue
CDequeue ==
    /\ wm.pc = "running" /\ wm.consumer = "dequeue"
    /\ wm.queue # <<>> \/ wm.queueClosed
    /\ wm' = IF wm.queue # <<>>
             THEN [wm EXCEPT !.ch = QueueRecv(wm.queue).ch,
                             !.queue = QueueRecv(wm.queue).rest,
                             !.consumer = "await"]
             ELSE [wm EXCEPT !.consumer = "done"]
    /\ UNCHANGED <<frames, file, r, call, w, out, envLog, wcall, procs>>

\* consumer: either select, case <-ctx.Done()
CCancelled ==
    /\ wm.pc = "running" /\ wm.consumer \in {"dequeue", "await"}
    /\ wm.gCtxDone
    /\ wm' = [wm EXCEPT !.consumer = "done"]
    /\ UNCHANGED <<frames, file, r, call, w, out, envLog, wcall, procs>>

\* a callback that is handed the compressed size
Callback_compressedSize(callbacks, entry) == Append(callbacks, entry.CompressedSize)

\* callback(result.entry.DecompressedSize): the calls made so far, in order
Callback(callbacks, entry) == Append(callbacks, entry.DecompressedSize)

\* consumer: result = <-ch, WriteFrame, the append of the entry, the callback
CWrite(mode) ==
    /\ wm.pc = "running" /\ wm.consumer = "await"
    /\ wm.ch \in wm.promised
    /\ LET result == encodeOne(frames[wm.ch])
           wf     == EnvWrite("frame", result.dst, mode, out, envLog)
           taken  == [wm EXCEPT !.promised = wm.promised \ {wm.ch}]
       IN  /\ out' = wf.out
           /\ envLog' = wf.log
           /\ IF wf.err # "nil"
              THEN /\ wm' = [TaskFailed(taken, "failed to write compressed data")
                                EXCEPT !.consumer = "done",
                                       !.failures = @ \cup {"failed to write compressed data"}]
                   /\ w' = w
              ELSE IF wf.n # SliceLen(result.dst)
              THEN /\ wm' = [TaskFailed(taken, "partial write") EXCEPT
                                !.consumer = "done", !.failures = @ \cup {"partial write"}]
                   /\ w' = w
              ELSE /\ w' = [w EXCEPT !.frameEntries = Append(@, result.entry)]
                   /\ wm' = [taken EXCEPT
                               !.callbacks = Callback(@, result.entry),
                               !.consumer = "dequeue"]
    /\ UNCHANGED <<frames, file, r, call, wcall, procs>>

\* the caller's context is cancelled; gCtx is derived from it
CtxCancel ==
    /\ wm.pc = "running" /\ ~wm.ctxDone
    /\ wm' = [wm EXCEPT !.ctxDone = TRUE, !.gCtxDone = TRUE]
    /\ UNCHANGED <<frames, file, r, call, w, out, envLog, wcall, procs>>

\* g.Wait(): every task has returned; WriteMany returns the first error
WMReturn ==
    /\ wm.pc = "running" /\ Active(wm) = 0
    /\ wm' = [wm EXCEPT !.pc = "returned", !.ret = wm.gErr, !.gCtxDone = TRUE]
    /\ UNCHANGED <<frames, file, r, call, w, out, envLog, wcall, procs>>

NextWM ==
    \/ \E concurrency \in 0..MaxConcurrency : WMCall(concurrency)
    \/ \E fails \in BOOLEAN : PSource(fails)
    \/ PEnqueue
    \/ PCancelled
    \/ PGo
    \/ \E i \in 1..MaxSourceFrames, how \in {"send", "drop", "fail"} : EFinish(i, how)
    \/ CDequeue
    \/ CCancelled
    \/ \E mode \in EnvModes : CWrite(mode)
    \/ CtxCancel
    \/ WMReturn

SpecWM == InitWM /\ [][NextWM]_vars

\* the steps the Go scheduler takes on its own: those of the tasks and g.Wait
PipelineStep ==
    \/ \E fails \in BOOLEAN : PSource(fails)
    \/ PEnqueue
    \/ PCancelled
    \/ PGo
    \/ \E i \in 1..MaxSourceFrames, how \in {"send", "drop", "fail"} : EFinish(i, how)
    \/ CDequeue
    \/ CCancelled
    \/ \E mode \in EnvModes : CWrite(mode)
    \/ WMReturn

\* a runnable goroutine is eventually run; the frame source, the encoder and
\* the environment return from every call
SpecWMFair == SpecWM /\ WF_vars(PipelineStep)

\* Write called on each frame in turn: the writer, the sink and the log after
RECURSIVE SerialWrite(_, _, _, _)
SerialWrite(fs, s, o, lg) ==
    IF fs = <<>> THEN [s |-> s, out |-> o, log |-> lg]
    ELSE LET x == writerImpl_Write(s, Head(fs), "ok", o, lg)
         IN  SerialWrite(Tail(fs), x.s, x.out, x.log)

C13_FailureStopsPipeline ==
    /\ (wm.failures # {}) ~> (wm.pc = "returned")
    /\ []((wm.pc = "returned" /\ wm.failures # {})
            => (wm.ret \in wm.failures /\ Active(wm) = 0))

C13_Witness ==
    /\ wm.pc = "returned" /\ wm.ret = "partial write"
    /\ wm.concurrency = 1
    /\ wm.pulled = Len(frames) /\ Len(frames) = MaxSourceFrames
    /\ Len(envLog) = 1

\* C14: if the context passed to WriteMany is cancelled before every frame of
\* the source has been written, WriteMany returns an error, not success.
C14_CancelledIsAnError ==
    (wm.pc = "returned" /\ wm.ctxDone /\ Len(envLog) < Len(frames))
        => wm.ret # "nil"

\* the WriteFrame calls the environment accepted in full, in call order
AcceptedFrames ==
    SelectSeq(envLog, LAMBDA c : c.kind = "frame" /\ c.err = "nil" /\ c.n = c.offered)

RECURSIVE SumSeq(_)
SumSeq(ns) == IF ns = <<>> THEN 0 ELSE Head(ns) + SumSeq(Tail(ns))

C30_PrefixInOrder ==
    LET k == Len(envLog)
        a == Len(AcceptedFrames)
    IN  /\ k <= Len(frames)
        /\ \A i \in 1..k :
              /\ envLog[i].kind = "frame"
              /\ envLog[i].offered = Len(EncodeAll(frames[i]))
              /\ i < k => (envLog[i].err = "nil" /\ envLog[i].n = envLog[i].offered)
        /\ out = Concat([i \in 1..k |-> Slice(EncodeAll(frames[i]), 0, envLog[i].n)])
        /\ a \in {k, k - 1}
        /\ w.frameEntries = [i \in 1..a |-> encodeOne(frames[i]).entry]

\* a WriteMany with two encoders that was cancelled after its second frame was
\* written, with the third frame encoded out of turn
C30_Witness ==
    /\ wm.pc = "returned" /\ wm.ctxDone /\ wm.concurrency = 2
    /\ Len(frames) = 3 /\ Len(envLog) = 2 /\ Len(w.frameEntries) = 2
    /\ wm.outOfOrder

\* no task has failed and the context is not cancelled
Undisturbed == wm.failures = {} /\ ~wm.ctxDone

\* some task of the pipeline is not blocked: the producer is calling the frame
\* source, or has room in the queue, or a free slot in the group; an encoder
\* is running; the consumer has a promise or the closed queue to take, or its
\* promise is fulfilled; or every task has returned and g.Wait can
CanStep ==
    \/ wm.producer = "source"
    \/ wm.producer = "enqueue" /\ Len(wm.queue) < QueueCap(wm.concurrency)
    \/ wm.producer = "go" /\ Active(wm) < GroupLimit(wm.concurrency)
    \/ wm.encoders # {}
    \/ wm.consumer = "dequeue" /\ (wm.queue # <<>> \/ wm.queueClosed)
    \/ wm.consumer = "await" /\ wm.ch \in wm.promised
    \/ Active(wm) = 0

\* C31: with a frame source that yields its n frames and then nil, an
\* environment that accepts every write and no cancellation, WriteMany does
\* not deadlock for any concurrency >= 1: while it runs some task can take a
\* step, it returns, and it returns nil after exactly n WriteFrame calls, one
\* per frame; the producer is blocked only on a full queue or a full group, and
\* the consumer only on an empty open queue or a pending head promise.
C31_NoDeadlock ==
    /\ []((wm.pc = "running" /\ Undisturbed) => CanStep)
    /\ (wm.pc = "running") ~> (wm.pc = "returned" \/ ~Undisturbed)
    /\ []((wm.pc = "returned" /\ Undisturbed /\ wm.concurrency >= 1) =>
            /\ wm.ret = "nil"
            /\ Len(envLog) = Len(frames)
            /\ Len(AcceptedFrames) = Len(frames))
    /\ []((wm.pc = "running" /\ Undisturbed) =>
            /\ (wm.producer = "enqueue" /\ ~ENABLED PEnqueue)
                  => Len(wm.queue) = QueueCap(wm.concurrency)
            /\ (wm.producer = "go" /\ ~ENABLED PGo)
                  => Cardinality(wm.encoders) = wm.concurrency
            /\ (wm.consumer = "await" /\ ~ENABLED (\E mode \in EnvModes : CWrite(mode)))
                  => (wm.ch \in wm.encoders \/ (wm.producer = "go" /\ wm.frame = wm.ch))
            /\ (wm.consumer = "dequeue" /\ ~ENABLED CDequeue)
                  => (wm.queue = <<>> /\ wm.producer # "done"))

\* concurrency 1, the queue full and the one encoder busy on the way, all
\* frames written
C31_Witness ==
    /\ wm.pc = "returned" /\ Undisturbed /\ wm.concurrency = 1
    /\ wm.ret = "nil"
    /\ Len(frames) = MaxSourceFrames /\ Len(envLog) = Len(frames)

\* C32: at every moment of WriteMany, after a failure or a cancellation as
\* well, at most concurrency encoders are in flight and at most 2*concurrency
\* promises wait in the queue.
C32_PoolBound ==
    wm.pc = "running" =>
        /\ Cardinality(wm.encoders) <= wm.concurrency
        /\ Len(wm.queue) <= 2 * wm.concurrency

------------------------------------------------------------------------------
(* SpecT: one reader opened on a file whose seek table was not written by   *)
(* this writer: frames of length zero, a footer without the checksum flag   *)
(* and 8-byte entries, or an entry whose checksum is not the frame's        *)

\* the lengths of the frames: empty, or not
TableFrameLens == {0, 2}
TableFrameSeqs ==
    { Cut(lens, 0) : lens \in UNION { [1..n -> TableFrameLens] : n \in 0..MaxTableFrames } }

\* the seek table of the frames fs: entries of 12 bytes, or of 8 when the
\* checksum flag is clear; the entry of frame `bad` carries a wrong checksum
RECURSIVE TableEntries(_, _, _, _)
TableEntries(fs, flag, bad, i) ==
    IF i > Len(fs) THEN <<>>
    ELSE LET e == entryMarshalBinary(
                      [CompressedSize |-> Len(EncodeAll(fs[i])),
                       DecompressedSize |-> Len(fs[i]),
                       Checksum |-> IF i = bad THEN Checksum32(fs[i]) + 1
                                    ELSE Checksum32(fs[i])])
         IN  (IF flag THEN e ELSE Slice(e, 0, 8)) \o TableEntries(fs, flag, bad, i + 1)

\* the file: the frames, then the seek table in its skippable frame
TableFile(fs, flag, bad) ==
    Concat([i \in 1..Len(fs) |-> EncodeAll(fs[i])])
        \o createSkippableFrame(seekableTag,
               TableEntries(fs, flag, bad, 1)
                   \o footerMarshalBinary([NumberOfFrames |-> Len(fs),
                                           ChecksumFlag |-> flag])).bytes

InitT ==
    /\ \E fs \in TableFrameSeqs, flag \in BOOLEAN, bad \in 0..MaxTableFrames :
          /\ bad <= Len(fs)
          /\ ~flag => bad = 0
          /\ frames = fs
          /\ file = TableFile(fs, flag, bad)
    /\ r = NewReader(file).r
    /\ call = NoCall
    /\ w = NewWriter
    /\ out = <<>>
    /\ envLog = <<>>
    /\ wcall = NoCall
    /\ procs = <<>>
    /\ wm = <<>>

\* Decoder.GetIndexByDecompOffset(off)
Lookup(off) ==
    /\ call = NoCall
    /\ call' = [op |-> "GetIndexByDecompOffset", off |-> off,
                found |-> GetIndexByDecompOffset(r, off),
                panic |-> GetIndexByDecompOffset_panics(r, off)]
    /\ UNCHANGED <<frames, file, r, w, out, envLog, wcall, procs, wm>>

\* Decoder.GetIndexByID(id)
LookupID(id) ==
    /\ call = NoCall
    /\ call' = [op |-> "GetIndexByID", id |-> id, found |-> GetIndexByID(r, id),
                panic |-> GetIndexByID_panics(r, id)]
    /\ UNCHANGED <<frames, file, r, w, out, envLog, wcall, procs, wm>>

NextT ==
    \/ \E len \in 1..MaxRALen, off \in 0..r.endOffset : ReadAt(len, off)
    \/ \E len \in 1..MaxRALen : Read(len)
    \/ \E offset \in 0..r.endOffset : Seek(offset, SeekStart)
    \/ \E off \in 0..(r.endOffset + 1) : Lookup(off)
    \/ \E id \in (0 - 1)..r.numFrames : LookupID(id)
    \/ Return

SpecT == InitT /\ [][NextT]_vars

\* the frame a read at offset off resolves to has an entry whose checksum is
\* not the checksum of the frame's body
BadAt(rd, off) ==
    /\ 0 <= off /\ off < rd.endOffset
    /\ LET index == GetIndexByDecompOffset(rd, off)
       IN  /\ index # NilEntry
           /\ index.Checksum # Checksum32(frames[index.ID + 1])

\* C18: with the footer's checksum flag set, a read that has to decompress a
\* frame whose body does not hash to the entry's checksum returns 0 bytes and
\* the checksum error and leaves the cache slot as it was; with the flag clear
\* no comparison is made and the read returns the frame's bytes.
C18_ChecksumVerified ==
    [][ /\ (call'.op = "Read" /\ BadAt(r, r.offset)) =>
              IF r.checksums
              THEN /\ call'.n = 0 /\ call'.err = "checksum"
                   /\ r'.cachedFrame = r.cachedFrame /\ r'.offset = r.offset
              ELSE /\ call'.err = "nil" /\ call'.n >= 1
                   /\ call'.data = Slice(S, r.offset, r.offset + call'.n)
        /\ (call'.op = "ReadAt" /\ BadAt(r, call'.off)) =>
              IF r.checksums
              THEN /\ call'.n = 0 /\ call'.err = "checksum"
                   /\ r'.cachedFrame = r.cachedFrame
              ELSE call'.n >= 1 /\ call'.data = Slice(S, call'.off, call'.off + call'.n)
      ]_vars

C18_Witness ==
    /\ call.op = "Read" /\ call.err = "checksum" /\ call.n = 0
    /\ r.checksums /\ BadAt(r, call.pre)
    /\ r.cachedFrame.data # Nil

\* C19: on every seek table the reader accepted, with or without entries of
\* decompressed size 0, the lookup by offset returns for 0 <= off < endOffset
\* a descriptor with DecompOffset <= off < DecompOffset + DecompSize, and nil
\* for off >= endOffset.
C19_LookupCovers ==
    /\ \A off \in 0..(r.endOffset + 1) :
          LET found == GetIndexByDecompOffset(r, off) IN
          IF off < r.endOffset
          THEN /\ found # NilEntry
               /\ found.DecompOffset <= off
               /\ off < found.DecompOffset + found.DecompSize
          ELSE found = NilEntry
    /\ call.op = "GetIndexByDecompOffset" =>
          IF call.off < r.endOffset
          THEN /\ call.found # NilEntry
               /\ call.found.DecompOffset <= call.off
               /\ call.off < call.found.DecompOffset + call.found.DecompSize
          ELSE call.found = NilEntry

\* a lookup inside a frame that follows two frames of length 0
C19_Witness ==
    /\ call.op = "GetIndexByDecompOffset"
    /\ Len(frames) = 3 /\ frames[1] = <<>> /\ frames[2] = <<>> /\ Len(frames[3]) = 2
    /\ call.off = 1
    /\ call.found.ID = 2 /\ call.found.DecompOffset = 0 /\ call.found.DecompSize = 2

\* C20: the lookup by id returns nil for id < 0 and for id >= numFrames, and
\* for 0 <= id < numFrames the descriptor with that id, also when frames of
\* length 0 share a DecompOffset; the lookup by an offset inside frame id
\* returns the same descriptor.
C20_LookupByID ==
    \A id \in (0 - 1)..r.numFrames :
        LET found == GetIndexByID(r, id) IN
        IF id < 0 \/ id >= r.numFrames
        THEN found = NilEntry
        ELSE /\ found # NilEntry
             /\ found.ID = id
             /\ \A off \in 0..(r.endOffset - 1) :
                   (found.DecompOffset <= off /\ off < found.DecompOffset + found.DecompSize)
                       => GetIndexByDecompOffset(r, off) = found

\* the sizes the seek table lists for frame j: compressed, decompressed
TableComp(j) == Len(EncodeAll(frames[j]))
TableDecomp(j) == Len(frames[j])

\* C28: after an open that succeeded, every entry the index holds, its id
\* being i, has CompOffset and DecompOffset equal to the sums of the compressed
\* and of the decompressed sizes of the table entries 0..i-1, and CompSize and
\* DecompSize those of table entry i; endOffset is the sum of all decompressed
\* sizes; the entry after one of decompressed size 0 has the same
\* DecompOffset; and no Read, ReadAt or Seek changes the index, endOffset or
\* numFrames.
C28_IndexOffsets ==
    /\ [](/\ \A k \in 1..Len(r.index) :
                LET e == r.index[k]
                    i == e.ID
                IN  /\ 0 <= i /\ i < Len(frames)
                    /\ e.CompOffset = SumSeq([j \in 1..i |-> TableComp(j)])
                    /\ e.DecompOffset = SumSeq([j \in 1..i |-> TableDecomp(j)])
                    /\ e.CompSize = TableComp(i + 1)
                    /\ e.DecompSize = TableDecomp(i + 1)
                    /\ (i > 0 /\ TableDecomp(i) = 0) =>
                          e.DecompOffset = SumSeq([j \in 1..(i - 1) |-> TableDecomp(j)])
          /\ r.endOffset = SumSeq([j \in 1..Len(frames) |-> TableDecomp(j)])
          /\ r.numFrames = Len(frames))
    /\ [][ /\ r'.index = r.index
           /\ r'.endOffset = r.endOffset
           /\ r'.numFrames = r.numFrames ]_vars

\* a table of three entries, the second of decompressed size 0, after a Read
\* that moved the cursor into the third frame
C28_Witness ==
    /\ Len(frames) = 3 /\ Len(frames[1]) = 2 /\ frames[2] = <<>> /\ Len(frames[3]) = 2
    /\ call.op = "Read" /\ call.err = "nil" /\ call.pre = 2 /\ r.offset = 4
    /\ \E k \in 1..Len(r.index) :
          r.index[k].ID = 2 /\ r.index[k].DecompOffset = 2 /\ r.index[k].CompOffset = 28

\* C36: on every seek table the reader accepted, frames of decompressed size
\* 0 included, a call of read with a non-empty dst returns an error or copies
\* at least one byte, so the loop of ReadAt ends: with the buffer full or
\* with an error.
C36_ReadAtTerminates ==
    /\ \A off \in 0..r.endOffset, dstLen \in 1..MaxRALen :
          LET m == readerImpl_read(r, file, dstLen, off) IN
          m.err # "nil" \/ m.n >= 1
    /\ call.op = "ReadAt" => (call.n = call.len \/ call.err # "nil")

C36_Witness ==
    /\ call.op = "ReadAt" /\ call.err = "nil" /\ call.len = 2 /\ call.n = 2
    /\ call.off = 1
    /\ Len(frames) = 3 /\ frames[2] = <<>>

------------------------------------------------------------------------------
(* SpecWire: the wire functions on their own. A 9-byte footer with any      *)
(* descriptor byte is decoded; a skippable frame is built for a tag and a   *)
(* payload                                                                  *)

\* a magic number that is not the seekable one: the bytes rotated
wrongMagicNumber == <<234, 146, 143, 177>>

\* tags on both sides of 0xf
TagValues == {0, 1, 15, 16, 255}

\* payloads: nil, empty, and of a few bytes
Payloads == {Nil} \cup { TextSlice(0, n) : n \in 0..MaxPayload }

InitWire ==
    /\ \E n \in 0..MaxFooterFrames, d \in 0..255,
          magic \in {seekableMagicNumber, wrongMagicNumber} :
          file = PutUint32(n) \o <<d>> \o magic
    /\ frames = <<>>
    /\ r = [closed |-> TRUE]
    /\ call = NoCall
    /\ w = NewWriter
    /\ out = <<>>
    /\ envLog = <<>>
    /\ wcall = NoCall
    /\ procs = <<>>
    /\ wm = <<>>

\* stf.UnmarshalBinary(p) on the footer
UnmarshalFooter ==
    /\ call = NoCall
    /\ call' = [op |-> "UnmarshalBinary", res |-> footerUnmarshalBinary(file)]
    /\ UNCHANGED <<frames, file, r, w, out, envLog, wcall, procs, wm>>

\* createSkippableFrame(tag, payload)
CreateSkippableFrame(tag, payload) ==
    /\ call = NoCall
    /\ call' = [op |-> "createSkippableFrame", tag |-> tag, payload |-> payload,
                res |-> createSkippableFrame(tag, payload)]
    /\ UNCHANGED <<frames, file, r, w, out, envLog, wcall, procs, wm>>

\* NewReader(rs, dec) with no environment option, rs possibly nil: the default
\* environment wraps rs as it is, and ReadFooter calls rs.rs.Seek, which on a
\* nil interface value is a run-time panic
NewReaderNoEnvironment(rs) ==
    IF rs = Nil THEN [err |-> "nil", panic |-> TRUE, reader |-> FALSE]
    ELSE [err |-> NewReader(rs).err, panic |-> FALSE, reader |-> NewReader(rs).err = "nil"]

\* NewReader(rs, dec)
Open(rs) ==
    /\ call = NoCall
    /\ call' = [op |-> "NewReader", rs |-> rs, res |-> NewReaderNoEnvironment(rs)]
    /\ UNCHANGED <<frames, file, r, w, out, envLog, wcall, procs, wm>>

NextWire ==
    \/ UnmarshalFooter
    \/ \E rs \in {Nil, file} : Open(rs)
    \/ \E tag \in TagValues, payload \in Payloads : CreateSkippableFrame(tag, payload)
    \/ Return

SpecWire == InitWire /\ [][NextWire]_vars

\* bit b of the byte d
Bit(d, b) == (d \div (2 ^ b)) % 2

\* C22: a 9-byte footer with the right magic is rejected exactly when one of
\* the bits 2..6 of its descriptor byte is set; when accepted the number of
\* frames is the one stored and the checksum flag is bit 7; footers that differ
\* only in bits 0 and 1 decode to the same result.
C22_FooterBits ==
    LET d   == file[5]
        res == footerUnmarshalBinary(file)
    IN  /\ Slice(file, 5, 9) = seekableMagicNumber =>
              /\ (res.err # "nil") <=> (\E b \in 2..6 : Bit(d, b) = 1)
              /\ res.err = "nil" =>
                    /\ PutUint32(res.footer.NumberOfFrames) = Slice(file, 0, 4)
                    /\ res.footer.ChecksumFlag = (Bit(d, 7) = 1)
              /\ \A low \in 0..3 :
                    footerUnmarshalBinary([file EXCEPT ![5] = d - (d % 4) + low]) = res
        /\ call.op = "UnmarshalBinary" => call.res = res

C22_Witness ==
    /\ call.op = "UnmarshalBinary"
    /\ file = PutUint32(MaxFooterFrames) \o <<131>> \o seekableMagicNumber
    /\ call.res.err = "nil"
    /\ call.res.footer = [NumberOfFrames |-> MaxFooterFrames, ChecksumFlag |-> TRUE]

\* C23: createSkippableFrame fails with the bad-tag error for every tag above
\* 0xf and every payload, the empty one included, and returns no bytes then.
C23_BadTag ==
    (call.op = "createSkippableFrame" /\ call.tag > 15)
        => (call.res.err = "bad tag" /\ call.res.bytes = Nil)

\* C26: NewReader on a nil source with no environment option returns an error
\* and no reader, and does not panic.
C26_NilSource ==
    (call.op = "NewReader" /\ call.rs = Nil) =>
        /\ ~call.res.panic
        /\ call.res.err # "nil"
        /\ ~call.res.reader

------------------------------------------------------------------------------
(* SpecEx: the package example. "Hello" and " World!" are written as two     *)
(* frames and the writer closed; a reader over the file serves ReadAt at     *)
(* offset 1, Seek to the start or to 6 before the end, and Read              *)

Hello == <<72, 101, 108, 108, 111>>
World == <<32, 87, 111, 114, 108, 100, 33>>

InitEx ==
    /\ frames = <<Hello, World>>
    /\ file = WrittenFile(frames)
    /\ \E readerAt \in BOOLEAN : r = WithSource(NewReader(file).r, readerAt)
    /\ call = NoCall
    /\ w = NewWriter
    /\ out = <<>>
    /\ envLog = <<>>
    /\ wcall = NoCall
    /\ procs = <<>>
    /\ wm = <<>>

NextEx ==
    \/ \E len \in 0..MaxExampleBuf : ReadAt(len, 1)
    \/ \E len \in 0..MaxExampleBuf : Read(len)
    \/ \E offset \in {0 - 6, 0}, whence \in {SeekStart, SeekEnd} : Seek(offset, whence)
    \/ Return

SpecEx == InitEx /\ [][NextEx]_vars

\* what the example shows: Seek(-6, SeekEnd) on the 12-byte stream moves the
\* cursor to 6, and a Read into 5 bytes from there returns "World" and leaves
\* the cursor at 11
SeekThenRead ==
    /\ r.endOffset = 12
    /\ (call.op = "Seek" /\ call.off = 0 - 6 /\ call.whence = SeekEnd) =>
          (call.err = "nil" /\ call.pos = 6 /\ r.offset = 6)
    /\ (call.op = "Read" /\ call.pre = 6 /\ call.len = 5) =>
          /\ call.n = 5 /\ call.err = "nil"
          /\ call.data = <<87, 111, 114, 108, 100>>
          /\ r.offset = 11

\* C27 as claimed: after Seek(-6, SeekEnd) and the Read of "World", the next
\* Read returns end of stream.
C27_ExampleThenEOF ==
    /\ SeekThenRead
    /\ (call.op = "Read" /\ call.pre = 11 /\ call.len >= 1) =>
          (call.n = 0 /\ call.err = "EOF")

\* C27 as amended: after Seek(-6, SeekEnd) and the Read of "World", the next
\* Read into a non-empty buffer returns the one byte left, "!", and no error;
\* the Read after that returns end of stream.
C27_ExampleThenLastByte ==
    /\ SeekThenRead
    /\ (call.op = "Read" /\ call.pre = 11 /\ call.len >= 1) =>
          (call.n = 1 /\ call.err = "nil" /\ call.data = <<33>> /\ r.offset = 12)
    /\ (call.op = "Read" /\ call.pre = 12 /\ call.len >= 1) =>
          (call.n = 0 /\ call.err = "EOF" /\ r.offset = 12)

C27_Witness ==
    /\ call.op = "Read" /\ call.pre = 11 /\ call.len = 5
    /\ call.data = <<33>>
    /\ r.cachedFrame.offset = 5 /\ r.cachedFrame.data = World

------------------------------------------------------------------------------
(* SpecD: a seek table that was crafted is opened, by NewReader over the     *)
(* default environment or by NewDecoder; the footer's number of frames, the  *)
(* number of entries and the Frame_Size field are chosen independently       *)

\* footer counts on both sides of the 128 MiB guard, for 12- and 8-byte entries
HugeCounts == {11184809, 11184810, 16777213, 16777214}

\* one entry of the crafted table: a frame of compressed size 64 holding 1 byte,
\* more than the file has
CraftedEntry(flag) ==
    LET e == entryMarshalBinary([CompressedSize |-> 64, DecompressedSize |-> 1,
                                 Checksum |-> 7])
    IN  IF flag THEN e ELSE Slice(e, 0, 8)

\* the skippable frame: magic, Frame_Size field, k entries, footer for n frames
CraftedTable(flag, n, k, sizeField) ==
    PutUint32(skippableFrameMagic + seekableTag) \o PutUint32(sizeField)
        \o Concat([i \in 1..k |-> CraftedEntry(flag)])
        \o footerMarshalBinary([NumberOfFrames |-> n, ChecksumFlag |-> flag])

\* no reader yet
NoReader ==
    [NewReader(<<>>).r EXCEPT !.closed = TRUE, !.hasIndex = FALSE, !.numFrames = 0 - 1]

InitD ==
    /\ \E flag \in BOOLEAN, n \in (0..MaxEntries) \cup HugeCounts, k \in 0..MaxEntries :
          LET es == IF flag THEN 12 ELSE 8 IN
          \E sizeField \in {es * k + 9, es * n + 9, maxDecoderFrameSize + 1} :
             file = CraftedTable(flag, n, k, sizeField)
    /\ frames = <<>>
    /\ r = NoReader
    /\ call = NoCall
    /\ w = NewWriter
    /\ out = <<>>
    /\ envLog = <<>>
    /\ wcall = NoCall
    /\ procs = <<>>
    /\ wm = <<>>

\* a reader or Decoder has been opened
Opened == r.numFrames >= 0

\* NewReader(rs, dec) over a source that is an io.ReaderAt or not, or
\* NewDecoder(seekTable, dec), on the crafted table
OpenTable(env, readerAt) ==
    /\ call = NoCall /\ ~Opened
    /\ \E res \in {IF env = "decoderEnv" THEN NewDecoder(file) ELSE NewReader(file)} :
       /\ r' = IF res.err = "nil" THEN WithSource(res.r, readerAt) ELSE r
       /\ call' = [op |-> "Open", env |-> env, err |-> res.err, asked |-> res.asked,
                   footer |-> res.footer]
    /\ UNCHANGED <<frames, file, w, out, envLog, wcall, procs, wm>>

\* the Decoder interface has no ReadAt: only a reader is read
NextD ==
    \/ \E readerAt \in BOOLEAN : OpenTable("readSeekerEnvImpl", readerAt)
    \/ OpenTable("decoderEnv", TRUE)
    \/ Opened /\ r.env # "nil" /\ \E len \in 0..1, off \in 0..r.endOffset : ReadAt(len, off)
    \/ Opened /\ \E off \in 0..(r.endOffset + 1) : Lookup(off)
    \/ Opened /\ \E id \in (0 - 1)..r.numFrames : LookupID(id)
    \/ Opened /\ CloseReader
    \/ Return

SpecD == InitD /\ [][NextD]_vars

\* the crafted table as it lies in the file: its Frame_Size field, the size of
\* its entries, and how many it holds
FrameSizeField == Uint32(file, 4)
EntrySize == IF file[Len(file) - 4] >= 128 THEN 12 ELSE 8
EntriesHeld == (Len(file) - 17) \div EntrySize

\* C33: an open succeeds only if the Frame_Size field is entry_size*N + 9 and
\* the table holds N entries, N the footer's number of frames; after it
\* NumFrames() is N, through the default environment and through NewDecoder.
C33_OpenChecksCount ==
    (call.op = "Open" /\ call.err = "nil") =>
        LET N == call.footer.NumberOfFrames IN
        /\ FrameSizeField = EntrySize * N + 9
        /\ EntriesHeld = N
        /\ r.numFrames = N

\* C39: an open refuses a seek table whose skippable frame, entry_size*N + 17
\* bytes, is longer than 128 MiB, and refuses it before it asks the
\* environment for anything but the footer; it refuses one whose Frame_Size
\* field is more than 128 MiB; the environment is never asked for a buffer
\* of more than 128 MiB.
C39_SizeGuard ==
    call.op = "Open" =>
        LET total == EntrySize * call.footer.NumberOfFrames + 17 IN
        /\ call.asked <= maxDecoderFrameSize
        /\ total > maxDecoderFrameSize => (call.err # "nil" /\ call.asked = 0)
        /\ total <= maxDecoderFrameSize => call.asked = total
        /\ FrameSizeField > maxDecoderFrameSize => call.err # "nil"

C39_Witness ==
    /\ call.op = "Open" /\ call.err = "frame offset too big" /\ call.asked = 0
    /\ EntrySize * call.footer.NumberOfFrames + 17 = maxDecoderFrameSize + 1

\* C40: after Close, on a reader as on a Decoder, GetIndexByDecompOffset and
\* GetIndexByID return nil for every argument; neither dereferences the
\* index that Close dropped.
C40_LookupAfterClose ==
    (call.op \in {"GetIndexByDecompOffset", "GetIndexByID"} /\ r.closed)
        => (~call.panic /\ call.found = NilEntry)

\* the frame that holds offset off reaches past the end of the source
SourceShort(off) ==
    LET index == GetIndexByDecompOffset(r, off) IN
    index # NilEntry /\ index.CompOffset + index.CompSize > Len(file)

\* C34: a read that has to fetch a frame of which the source holds fewer than
\* comp_size bytes fails with the short-compressed error, over a source that
\* is an io.ReaderAt as over one that is not; the decompressor, whose failure
\* is another error, is never given the shorter or padded buffer.
C34_ShortSourceRefused ==
    (call.op = "ReadAt" /\ call.open /\ call.fetched /\ SourceShort(call.off))
        => call.err = "short compressed"

------------------------------------------------------------------------------
(* SpecRC: Close runs while callers are inside ReadAt. read loads the closed *)
(* flag and only later consults r.index, which Close sets to nil with no     *)
(* lock: a step is one access to the flag, the index or the cache slot       *)

\* read: r.closed.Load()
RCLoadClosed(p) ==
    /\ procs[p].pc = "read"
    /\ procs' = [procs EXCEPT ![p] =
                   IF IsClosed(r) THEN [procs[p] EXCEPT !.err = "closed", !.pc = "return"]
                   ELSE [procs[p] EXCEPT !.pc = "lookup"]]
    /\ UNCHANGED <<frames, file, r, call, w, out, envLog, wcall, wm>>

\* read: the range checks and r.GetIndexByDecompOffset, which reads r.index
RCLookup(p) ==
    /\ procs[p].pc = "lookup"
    /\ LET me    == procs[p]
           off   == me.off + me.n
           index == GetIndexByDecompOffset(r, off)
           fail(e) == [me EXCEPT !.err = e, !.pc = "return"]
       IN  procs' = [procs EXCEPT ![p] =
             IF off >= r.endOffset THEN fail("EOF")
             ELSE IF off < 0 THEN fail("negative offset")
             ELSE IF IndexDropped(r) THEN fail("panic")
             ELSE IF index = NilEntry THEN fail("index lookup")
             ELSE IF off < index.DecompOffset
                       \/ off > index.DecompOffset + index.DecompSize
                  THEN fail("out of bounds")
             ELSE [me EXCEPT !.index = index, !.pc = "get"]]
    /\ UNCHANGED <<frames, file, r, call, w, out, envLog, wcall, wm>>

\* Close() called by another goroutine
RCClose ==
    /\ ~r.closed
    /\ r' = readerImpl_Close(r)
    /\ UNCHANGED <<frames, file, call, w, out, envLog, wcall, procs, wm>>

\* the copy of RACopy, the next pass of the loop starting at the closed flag
NextRC ==
    \/ \E p \in Procs, len \in 1..MaxRALen, off \in 0..(r.endOffset - 1) :
          RACall(p, len, off)
    \/ \E p \in Procs : RCLoadClosed(p)
    \/ \E p \in Procs : RCLookup(p)
    \/ \E p \in Procs : RAGet(p)
    \/ \E p \in Procs : RASlow(p)
    \/ \E p \in Procs : RACopy(p)
    \/ \E p \in Procs : RAReturn(p)
    \/ RCClose

SpecRC == InitRA /\ [][NextRC]_vars

\* C35: when Close runs concurrently with ReadAt, every ReadAt returns bytes
\* of the stream, end of stream or the reader-closed error; none of them
\* reaches the index after Close has dropped it.
C35_CloseDuringReadAt ==
    \A p \in Procs :
        procs[p].pc = "return" =>
            /\ procs[p].err \in {"nil", "EOF", "closed"}
            /\ procs[p].data = Slice(Concat(frames), procs[p].off,
                                     procs[p].off + procs[p].n)

------------------------------------------------------------------------------
(* SpecL: one reader opened on a file whose seek table gives a frame a       *)
(* decompressed size one more than the frame decodes to, or a checksum that  *)
(* is not the frame's                                                        *)

\* the seek table of the frames fs; the entry of frame `long` carries a
\* decompressed size that is one too many, the entry of `bad` a wrong checksum
RECURSIVE LongEntries(_, _, _, _, _)
LongEntries(fs, flag, bad, long, i) ==
    IF i > Len(fs) THEN <<>>
    ELSE LET e == entryMarshalBinary(
                      [CompressedSize |-> Len(EncodeAll(fs[i])),
                       DecompressedSize |-> Len(fs[i]) + (IF i = long THEN 1 ELSE 0),
                       Checksum |-> IF i = bad THEN Checksum32(fs[i]) + 1
                                    ELSE Checksum32(fs[i])])
         IN  (IF flag THEN e ELSE Slice(e, 0, 8)) \o LongEntries(fs, flag, bad, long, i + 1)

LongFile(fs, flag, bad, long) ==
    Concat([i \in 1..Len(fs) |-> EncodeAll(fs[i])])
        \o createSkippableFrame(seekableTag,
               LongEntries(fs, flag, bad, long, 1)
                   \o footerMarshalBinary([NumberOfFrames |-> Len(fs),
                                           ChecksumFlag |-> flag])).bytes

InitL ==
    /\ \E fs \in TableFrameSeqs, flag \in BOOLEAN, bad \in 0..MaxTableFrames,
          long \in 0..MaxTableFrames :
          /\ bad <= Len(fs) /\ long <= Len(fs)
          /\ ~flag => bad = 0
          /\ frames = fs
          /\ file = LongFile(fs, flag, bad, long)
    /\ r = NewReader(file).r
    /\ call = NoCall
    /\ w = NewWriter
    /\ out = <<>>
    /\ envLog = <<>>
    /\ wcall = NoCall
    /\ procs = <<>>
    /\ wm = <<>>

NextL ==
    \/ \E len \in 1..MaxRALen, off \in 0..r.endOffset : ReadAt(len, off)
    \/ \E len \in 1..MaxRALen : Read(len)
    \/ \E offset \in 0..r.endOffset : Seek(offset, SeekStart)
    \/ Return

SpecL == InitL /\ [][NextL]_vars


\* the slot holds a buffer whose length is not the DecompSize of the entry
\* filed under the slot's offset
SlotWrongLength ==
    /\ r.cachedFrame.data # Nil
    /\ \E i \in 1..Len(r.index) :
          /\ r.index[i].DecompOffset = r.cachedFrame.offset
          /\ Len(r.cachedFrame.data) # r.index[i].DecompSize

\* C37 as stated: the slot never holds a buffer whose length is not the
\* decomp_size of its frame, the length being verified before the store.
C37_SlotLengthVerified == ~SlotWrongLength

\* C37: a decompressed buffer is stored in the slot after its checksum was
\* verified (when the flag is set) and before its length is compared with
\* DecompSize; the comparison is made on every use, so that a buffer of the
\* wrong length may sit in the slot, but a read resolving to it copies
\* nothing, fetches nothing and fails with the index-corruption error, and no
\* read that succeeds took its bytes from a buffer of the wrong length.
C37_SlotChecksumVerified ==
    /\ r.cachedFrame.data # Nil =>
          \E i \in 1..Len(r.index) :
             /\ r.index[i].DecompOffset = r.cachedFrame.offset
             /\ r.cachedFrame.data = frames[r.index[i].ID + 1]
             /\ r.checksums => r.index[i].Checksum = Checksum32(r.cachedFrame.data)
    /\ \A off \in 0..(r.endOffset - 1) :
          LET index == GetIndexByDecompOffset(r, off)
              m     == readerImpl_read(r, file, 1, off)
          IN  /\ index # NilEntry
              /\ m.err = "nil" => Len(frames[index.ID + 1]) = index.DecompSize
              /\ (CacheHit(r.cachedFrame, index)
                    /\ Len(r.cachedFrame.data) # index.DecompSize)
                    => (m.err = "index corruption" /\ m.n = 0 /\ ~m.fetched)

C37_Witness ==
    /\ SlotWrongLength
    /\ call.op = "ReadAt" /\ call.err = "index corruption" /\ call.n = 0
    /\ ~call.fetched

==============================================================================
